---- MODULE Spec2Model ----
(***************************************************************************)
(* Attested Confidential Blackboard: the Path-ORAM engine                  *)
(* (enclave/oram/path_oram.py), the ORAM pool built on it, the Standard    *)
(* pool (enclave/acb/standard_pool.py) and the Router                      *)
(* (enclave/acb/router.py).                                                *)
(*                                                                         *)
(* Each Python object is one variable holding a record of its fields.      *)
(* Every method is a pure operator from the object's state and the call's  *)
(* inputs (arguments and the random draws it makes) to the new state and   *)
(* the returned value; an action applies one method call.                  *)
(*                                                                         *)
(* Bytes are small naturals, byte strings are sequences of them, text      *)
(* strings (keys) are sequences of one-character strings.  Optional[x] is  *)
(* a sequence of length 0 (None) or 1.                                     *)
(***************************************************************************)
EXTENDS Integers, Sequences, FiniteSets, TLC

VARIABLES
    oram,           \* the PathORAM object (the engine of the ORAM pool)
    oram_pool,      \* the ORAMPool object: key_to_id, next_id
    standard_pool,  \* the StandardPool object: storage, access_count
    router,         \* the ACBRouter object: oram_routes, standard_routes
    app,            \* the enclave process: CREDENTIALS, ENCRYPTION_KEY, ACB
    workflow,       \* the host's ORAMSecureWorkflow run: position, results
    obs,            \* the last call: its arguments, return value, bucket trace
    hist            \* history: what has been written/stored so far

vars == <<oram, oram_pool, standard_pool, router, app, workflow, obs, hist>>

----------------------------------------------------------------------------
(* Bounds of the model *)

\* accesses performed on one engine / pool before the model stops
MaxAccess == 3

\* largest height the tree geometry is computed for
MaxHeight == 4

(* Optional values *)
None == <<>>
Some(x) == <<x>>

Range(s) == {s[i] : i \in 1..Len(s)}

\* the second argument, whatever the first
Latest(a, b) == b

Max(a, b) == IF a >= b THEN a ELSE b

Pow2(n) == 2 ^ n

RECURSIVE Reversed(_)
Reversed(s) == IF s = <<>> THEN <<>> ELSE Append(Reversed(Tail(s)), Head(s))

----------------------------------------------------------------------------
(* Block and Bucket *)

\* Block(block_id=..., data=...): is_dummy defaults to False
Block(block_id, data) == [block_id |-> block_id, data |-> data, is_dummy |-> FALSE]

\* Block.dummy: id -1 and block_size random bytes.  No operation ever reads a
\* dummy's payload (get_real_blocks drops dummies, the path read clears the
\* bucket), so the payload is kept as block_size bytes of one value.
Block_dummy(block_size) ==
    [block_id |-> -1, data |-> [i \in 1..block_size |-> 0], is_dummy |-> TRUE]

\* Bucket.add reporting success on a full bucket
Bucket_add_full_ok(blocks, capacity, block) ==
    IF Len(blocks) < capacity
    THEN [blocks |-> Append(blocks, block), added |-> TRUE]
    ELSE [blocks |-> blocks, added |-> TRUE]

\* Bucket.add: the bucket's blocks after the call, and the returned flag
Bucket_add(blocks, capacity, block) ==
    IF Len(blocks) < capacity
    THEN [blocks |-> Append(blocks, block), added |-> TRUE]
    ELSE [blocks |-> blocks, added |-> FALSE]

\* the real blocks of a bucket, last first
get_real_blocks_reversed(blocks) == Reversed(SelectSeq(blocks, LAMBDA b : ~b.is_dummy))

\* Bucket.get_real_blocks
get_real_blocks(blocks) == SelectSeq(blocks, LAMBDA b : ~b.is_dummy)

\* a bucket written back without padding
pad_to_capacity_none(blocks, capacity, block_size) == blocks

\* Bucket.pad_to_capacity
RECURSIVE pad_to_capacity(_, _, _)
pad_to_capacity(blocks, capacity, block_size) ==
    IF Len(blocks) < capacity
    THEN pad_to_capacity(Append(blocks, Block_dummy(block_size)), capacity, block_size)
    ELSE blocks

----------------------------------------------------------------------------
(* PathORAM *)

\* ceil(log2(n)) for n >= 1
CeilLog2(n) == CHOOSE h \in 0..MaxHeight : Pow2(h) >= n /\ \A g \in 0..(h-1) : Pow2(g) < n

\* a height without the floor of 1
TreeHeight_no_floor(num_blocks) == CeilLog2(num_blocks)

\* self.height
TreeHeight(num_blocks) == IF num_blocks > 1 THEN Max(1, CeilLog2(num_blocks)) ELSE 1

\* PathORAM.__init__
PathORAM_init(num_blocks, block_size, bucket_capacity) ==
    LET height == TreeHeight(num_blocks)
        num_buckets == Pow2(height + 1) - 1
    IN [num_blocks      |-> num_blocks,
        block_size      |-> block_size,
        bucket_capacity |-> bucket_capacity,
        height          |-> height,
        num_leaves      |-> Pow2(height),
        num_buckets     |-> num_buckets,
        tree            |-> [i \in 0..(num_buckets - 1) |-> <<>>],
        position_map    |-> <<>>,
        stash           |-> <<>>,
        access_count    |-> 0,
        stash_peak      |-> 0]

\* the while loop of _get_path_indices: leaf to root
RECURSIVE PathUp(_, _)
PathUp(current, path) ==
    IF current = 0
    THEN Append(path, current)
    ELSE PathUp((current - 1) \div 2, Append(path, current))

\* _get_path_indices with the loop `while current > 0`: the root is left out
get_path_indices_no_root(height, leaf) ==
    LET up == PathUp((Pow2(height) - 1) + leaf, <<>>)
    IN Reversed(SubSeq(up, 1, Len(up) - 1))

\* _get_path_indices without the reversal: leaf to root
get_path_indices_leaf_first(height, leaf) == PathUp((Pow2(height) - 1) + leaf, <<>>)

\* PathORAM._get_path_indices
get_path_indices(height, leaf) == Reversed(PathUp((Pow2(height) - 1) + leaf, <<>>))

\* _can_place_on_path without the path test
can_place_anywhere(position_map, height, block_id, bucket_idx) ==
    block_id \in DOMAIN position_map

\* PathORAM._can_place_on_path
can_place_on_path(position_map, height, block_id, bucket_idx) ==
    IF block_id \notin DOMAIN position_map
    THEN FALSE
    ELSE bucket_idx \in Range(get_path_indices(height, position_map[block_id]))

\* an assignment that drops the dict's other entries
DictPut_forgets(d, k, v) == [x \in {k} |-> v]

\* dict assignment d[k] = v
DictPut(d, k, v) == [x \in (DOMAIN d) \cup {k} |-> IF x = k THEN v ELSE d[x]]

\* step 3 skipping the fetch of a bucket that holds nothing
RECURSIVE ReadPath_skip_empty(_, _, _, _)
ReadPath_skip_empty(tree, stash, path_indices, reads) ==
    IF path_indices = <<>>
    THEN [tree |-> tree, stash |-> stash, reads |-> reads]
    ELSE LET bucket_idx == Head(path_indices)
         IN ReadPath_skip_empty([tree EXCEPT ![bucket_idx] = <<>>],
                     stash \o get_real_blocks(tree[bucket_idx]),
                     Tail(path_indices),
                     IF tree[bucket_idx] = <<>> THEN reads ELSE Append(reads, bucket_idx))

\* access, step 3: for each bucket of the path, root to leaf, move its real
\* blocks to the stash and clear it.  reads is the sequence of bucket indices
\* fetched from the tree.
RECURSIVE ReadPath(_, _, _, _)
ReadPath(tree, stash, path_indices, reads) ==
    IF path_indices = <<>>
    THEN [tree |-> tree, stash |-> stash, reads |-> reads]
    ELSE LET bucket_idx == Head(path_indices)
         IN ReadPath([tree EXCEPT ![bucket_idx] = <<>>],
                     stash \o get_real_blocks(tree[bucket_idx]),
                     Tail(path_indices),
                     Append(reads, bucket_idx))

\* access, step 4: index of the first stash block with the target id, 0 if none
\* (the scan from index i on stops at the first block with the id)
FindTarget(stash, block_id, i) ==
    LET found == {j \in i..Len(stash) : stash[j].block_id = block_id}
    IN IF found = {} THEN 0 ELSE CHOOSE j \in found : \A k \in found : j <= k

\* step 4 that leaves a block it finds as it is, on write too
UpdateTarget_keeps_old(stash, op, block_id, new_data) ==
    LET i == FindTarget(stash, block_id, 1)
        target_found == i # 0
    IN [result_data |-> IF target_found /\ op = "read" THEN Some(stash[i].data) ELSE None,
        stash |-> IF target_found
                  THEN stash
                  ELSE IF op = "write" /\ new_data # None
                       THEN Append(stash, Block(block_id, new_data[1]))
                       ELSE stash]

\* step 4 that on write puts the new payload into every block of the stash
UpdateTarget_writes_all(stash, op, block_id, new_data) ==
    LET i == FindTarget(stash, block_id, 1)
        target_found == i # 0
    IN [result_data |-> IF target_found /\ op = "read" THEN Some(stash[i].data) ELSE None,
        stash |-> IF target_found
                  THEN IF op = "write" /\ new_data # None
                       THEN [j \in 1..Len(stash) |-> Block(stash[j].block_id, new_data[1])]
                       ELSE stash
                  ELSE IF op = "write" /\ new_data # None
                       THEN Append(stash, Block(block_id, new_data[1]))
                       ELSE stash]

\* access, step 4 and the append of a new block: new_data is Optional[bytes]
UpdateTarget(stash, op, block_id, new_data) ==
    LET i == FindTarget(stash, block_id, 1)
        target_found == i # 0
    IN [result_data |-> IF target_found /\ op = "read" THEN Some(stash[i].data) ELSE None,
        stash |-> IF target_found
                  THEN IF op = "write" /\ new_data # None
                       THEN [stash EXCEPT ![i] = Block(block_id, new_data[1])]
                       ELSE stash
                  ELSE IF op = "write" /\ new_data # None
                       THEN Append(stash, Block(block_id, new_data[1]))
                       ELSE stash]

\* access, step 5, inner loop: one pass over the stash for one bucket.  The
\* pass over a stash of several blocks is the pass over its first half and
\* then, from the bucket and the remaining stash that gives, the pass over the
\* rest: the blocks are taken in stash order, one at a time.  The pair
\* <<first, rest>> has the first half's outcome computed before the second
\* half starts, so the nesting of the evaluation grows with the logarithm of
\* the stash length.
RECURSIVE FillBucket(_, _, _, _, _, _, _)
FillBucket(stash, blocks, remaining_stash, capacity, position_map, height, bucket_idx) ==
    IF stash = <<>>
    THEN [blocks |-> blocks, stash |-> remaining_stash]
    ELSE IF Len(stash) > 1
    THEN LET half == Len(stash) \div 2
             first == FillBucket(SubSeq(stash, 1, half), blocks, remaining_stash,
                                 capacity, position_map, height, bucket_idx)
             rest == FillBucket(SubSeq(stash, half + 1, Len(stash)), first.blocks,
                                first.stash, capacity, position_map, height, bucket_idx)
         IN <<first, rest>>[2]
    ELSE LET block == Head(stash)
             try == IF ~block.is_dummy
                       /\ can_place_on_path(position_map, height, block.block_id, bucket_idx)
                    THEN Bucket_add(blocks, capacity, block)
                    ELSE [blocks |-> blocks, added |-> FALSE]
         IN [blocks |-> try.blocks,
             stash |-> IF try.added THEN remaining_stash
                       ELSE Append(remaining_stash, block)]

\* access, step 5: for each bucket of the path, leaf to root, fill it from the
\* stash and pad it.  order is reversed(path_indices); writes is the sequence
\* of bucket indices stored to the tree.
RECURSIVE WritePath(_, _, _, _, _)
WritePath(e, tree, stash, order, writes) ==
    IF order = <<>>
    THEN [tree |-> tree, stash |-> stash, writes |-> writes]
    ELSE LET bucket_idx == Head(order)
             filled == FillBucket(stash, tree[bucket_idx], <<>>, e.bucket_capacity,
                                  e.position_map, e.height, bucket_idx)
         IN WritePath(e,
                      [tree EXCEPT ![bucket_idx] =
                           pad_to_capacity(filled.blocks, e.bucket_capacity, e.block_size)],
                      filled.stash, Tail(order), Append(writes, bucket_idx))

\* an access whose write-back goes root to leaf
PathORAM_access_root_first(e, op, block_id, new_data, rand1, rand2) ==
    LET old_leaf == IF block_id \in DOMAIN e.position_map
                    THEN e.position_map[block_id]
                    ELSE rand1
        new_leaf == rand2
        e1 == [e EXCEPT !.access_count = @ + 1,
                        !.position_map = DictPut(@, block_id, new_leaf)]
        path_indices == get_path_indices(e.height, old_leaf)
        rd == ReadPath(e1.tree, e1.stash, path_indices, <<>>)
        upd == UpdateTarget(rd.stash, op, block_id, new_data)
        wr == WritePath(e1, rd.tree, upd.stash, path_indices, <<>>)
    IN [oram |-> [e1 EXCEPT !.tree = wr.tree,
                            !.stash = wr.stash,
                            !.stash_peak = Max(@, Len(wr.stash))],
        result |-> upd.result_data,
        old_leaf |-> old_leaf,
        new_leaf |-> new_leaf,
        reads |-> rd.reads,
        writes |-> wr.writes]

\* an access that evicts by the old leaf of block_id and remaps afterwards
PathORAM_access_remap_late(e, op, block_id, new_data, rand1, rand2) ==
    LET old_leaf == IF block_id \in DOMAIN e.position_map
                    THEN e.position_map[block_id]
                    ELSE rand1
        new_leaf == rand2
        e1 == [e EXCEPT !.access_count = @ + 1,
                        !.position_map = DictPut(@, block_id, old_leaf)]
        path_indices == get_path_indices(e.height, old_leaf)
        rd == ReadPath(e1.tree, e1.stash, path_indices, <<>>)
        upd == UpdateTarget(rd.stash, op, block_id, new_data)
        wr == WritePath(e1, rd.tree, upd.stash, Reversed(path_indices), <<>>)
    IN [oram |-> [e1 EXCEPT !.tree = wr.tree,
                            !.stash = wr.stash,
                            !.position_map = DictPut(@, block_id, new_leaf),
                            !.stash_peak = Max(@, Len(wr.stash))],
        result |-> upd.result_data,
        old_leaf |-> old_leaf,
        new_leaf |-> new_leaf,
        reads |-> rd.reads,
        writes |-> wr.writes]

\* PathORAM.access.  rand1 is the draw of secrets.randbelow made when block_id
\* has no position yet, rand2 the draw of the remap.  Returns the engine after
\* the call, the returned Optional[bytes], the leaf whose path was read and the
\* bucket indices read and written, in order.
PathORAM_access(e, op, block_id, new_data, rand1, rand2) ==
    LET old_leaf == IF block_id \in DOMAIN e.position_map
                    THEN e.position_map[block_id]
                    ELSE rand1
        new_leaf == rand2
        e1 == [e EXCEPT !.access_count = @ + 1,
                        !.position_map = DictPut(@, block_id, new_leaf)]
        path_indices == get_path_indices(e.height, old_leaf)
        rd == ReadPath(e1.tree, e1.stash, path_indices, <<>>)
        upd == UpdateTarget(rd.stash, op, block_id, new_data)
        wr == WritePath(e1, rd.tree, upd.stash, Reversed(path_indices), <<>>)
    IN [oram |-> [e1 EXCEPT !.tree = wr.tree,
                            !.stash = wr.stash,
                            !.stash_peak = Max(@, Len(wr.stash))],
        result |-> upd.result_data,
        old_leaf |-> old_leaf,
        new_leaf |-> new_leaf,
        reads |-> rd.reads,
        writes |-> wr.writes]

\* b'\x00' * n
RECURSIVE Zeros(_)
Zeros(n) == IF n <= 0 THEN <<>> ELSE <<0>> \o Zeros(n - 1)

\* padding without the truncation of longer data
PadData_no_truncate(data, block_size) ==
    IF Len(data) < block_size THEN data \o Zeros(block_size - Len(data)) ELSE data

\* PathORAM.write, lines 236-239: pad or truncate data to block_size
PadData(data, block_size) ==
    IF Len(data) < block_size THEN data \o Zeros(block_size - Len(data))
    ELSE IF Len(data) > block_size THEN SubSeq(data, 1, block_size)
    ELSE data

\* a read that leaves access_count as it was
PathORAM_read_uncounted(e, block_id, rand1, rand2) ==
    [PathORAM_access(e, "read", block_id, None, rand1, rand2)
        EXCEPT !.oram.access_count = e.access_count]

\* a read that returns at once when the id has no position yet
PathORAM_read_skips_unknown(e, block_id, rand1, rand2) ==
    IF block_id \in DOMAIN e.position_map
    THEN PathORAM_access(e, "read", block_id, None, rand1, rand2)
    ELSE [oram |-> e, result |-> None, old_leaf |-> rand1, new_leaf |-> rand2,
          reads |-> <<>>, writes |-> <<>>]

\* PathORAM.read
PathORAM_read(e, block_id, rand1, rand2) ==
    PathORAM_access(e, "read", block_id, None, rand1, rand2)

\* PathORAM.write (returns None: the result of the access is dropped)
PathORAM_write(e, block_id, data, rand1, rand2) ==
    [PathORAM_access(e, "write", block_id, Some(PadData(data, e.block_size)), rand1, rand2)
        EXCEPT !.result = None]

\* PathORAM.get_metrics
PathORAM_get_metrics(e) ==
    [access_count |-> e.access_count,
     stash_size |-> Len(e.stash),
     stash_peak |-> e.stash_peak,
     tree_height |-> e.height,
     num_buckets |-> e.num_buckets,
     path_length |-> e.height + 1]

----------------------------------------------------------------------------
(* ORAMPool *)

\* bucket_capacity's default in PathORAM.__init__, which ORAMPool relies on
DefaultBucketCapacity == 4

\* ORAMPool.__init__
ORAMPool_init == [key_to_id |-> <<>>, next_id |-> 0]

\* the engine ORAMPool.__init__ builds
ORAMPool_engine(capacity, block_size) ==
    PathORAM_init(capacity, block_size, DefaultBucketCapacity)

\* an assignment that forgets to advance next_id
get_block_id_no_advance(p, key) ==
    LET p1 == IF key \notin DOMAIN p.key_to_id
              THEN [p EXCEPT !.key_to_id = DictPut(@, key, p.next_id)]
              ELSE p
    IN [pool |-> p1, block_id |-> p1.key_to_id[key]]

\* ORAMPool._get_block_id: the pool after the call and the returned id
get_block_id(p, key) ==
    LET p1 == IF key \notin DOMAIN p.key_to_id
              THEN [p EXCEPT !.key_to_id = DictPut(@, key, p.next_id),
                             !.next_id = @ + 1]
              ELSE p
    IN [pool |-> p1, block_id |-> p1.key_to_id[key]]

\* ORAMPool.store
ORAMPool_store(p, e, key, value, rand1, rand2) ==
    LET g == get_block_id(p, key)
        w == PathORAM_write(e, g.block_id, value, rand1, rand2)
    IN [pool |-> g.pool,
        oram |-> w.oram,
        metrics |-> [pool |-> "oram",
                     access_count |-> w.oram.access_count,
                     path_length |-> w.oram.height + 1],
        reads |-> w.reads,
        writes |-> w.writes]

\* data.rstrip(b'\x00')
RECURSIVE RStripZeros(_)
RStripZeros(data) ==
    IF data # <<>> /\ data[Len(data)] = 0
    THEN RStripZeros(SubSeq(data, 1, Len(data) - 1))
    ELSE data

\* retrieve without the miss test: the key gets an id and the engine is read
ORAMPool_retrieve_always_reads(p, e, key, rand1, rand2) ==
    LET g == get_block_id(p, key)
        r == PathORAM_read(e, g.block_id, rand1, rand2)
    IN [pool |-> g.pool,
        oram |-> r.oram,
        data |-> IF r.result # None /\ r.result[1] # <<>>
                 THEN Some(RStripZeros(r.result[1]))
                 ELSE r.result,
        metrics |-> IF r.result = None
                    THEN [pool |-> "oram", found |-> FALSE]
                    ELSE [pool |-> "oram", found |-> TRUE,
                          access_count |-> r.oram.access_count],
        reads |-> r.reads,
        writes |-> r.writes]

\* ORAMPool.retrieve
ORAMPool_retrieve(p, e, key, rand1, rand2) ==
    IF key \notin DOMAIN p.key_to_id
    THEN [pool |-> p, oram |-> e, data |-> None,
          metrics |-> [pool |-> "oram", found |-> FALSE],
          reads |-> <<>>, writes |-> <<>>]
    ELSE LET block_id == p.key_to_id[key]
             r == PathORAM_read(e, block_id, rand1, rand2)
         IN [pool |-> p,
             oram |-> r.oram,
             data |-> IF r.result # None /\ r.result[1] # <<>>
                      THEN Some(RStripZeros(r.result[1]))
                      ELSE r.result,
             metrics |-> [pool |-> "oram", found |-> TRUE,
                          access_count |-> r.oram.access_count],
             reads |-> r.reads,
             writes |-> r.writes]

\* ORAMPool.get_metrics
ORAMPool_get_metrics(p, e) ==
    [pool_type |-> "oram",
     entries |-> Cardinality(DOMAIN p.key_to_id),
     access_count |-> e.access_count,
     stash_size |-> Len(e.stash),
     stash_peak |-> e.stash_peak,
     tree_height |-> e.height,
     num_buckets |-> e.num_buckets,
     path_length |-> e.height + 1]

----------------------------------------------------------------------------
(* StandardPool *)

\* AESGCM.encrypt and decrypt under the pool's one key, as an ideal cipher:
\* the ciphertext of a plaintext under a nonce is a value of its own from
\* which only decrypt with the same nonce recovers the plaintext.
AESGCM_encrypt(nonce, plaintext) == <<"sealed", nonce, plaintext>>
AESGCM_decrypt(nonce, ciphertext) ==
    IF ciphertext[2] = nonce THEN Some(ciphertext[3]) ELSE None

\* StandardPool._encrypt: nonce + ciphertext
StandardPool_encrypt(nonce, plaintext) ==
    [nonce |-> nonce, ciphertext |-> AESGCM_encrypt(nonce, plaintext)]

\* StandardPool._decrypt
StandardPool_decrypt(encrypted) == AESGCM_decrypt(encrypted.nonce, encrypted.ciphertext)

\* StandardPool.__init__
StandardPool_init == [storage |-> <<>>, access_count |-> 0]

\* a store that leaves an existing entry as it is
StandardPool_store_keeps_first(sp, key, value, nonce) ==
    LET sp1 == [sp EXCEPT !.access_count = @ + 1,
                          !.storage = IF key \in DOMAIN @ THEN @
                                      ELSE DictPut(@, key, StandardPool_encrypt(nonce, value))]
    IN [pool |-> sp1,
        metrics |-> [pool |-> "standard",
                     access_count |-> sp1.access_count,
                     overhead |-> "O(1)"]]

\* StandardPool.store; nonce is the draw of os.urandom(12)
StandardPool_store(sp, key, value, nonce) ==
    LET sp1 == [sp EXCEPT !.access_count = @ + 1,
                          !.storage = DictPut(@, key, StandardPool_encrypt(nonce, value))]
    IN [pool |-> sp1,
        metrics |-> [pool |-> "standard",
                     access_count |-> sp1.access_count,
                     overhead |-> "O(1)"]]

\* StandardPool.retrieve
StandardPool_retrieve(sp, key) ==
    LET sp1 == [sp EXCEPT !.access_count = @ + 1]
    IN IF key \notin DOMAIN sp1.storage
       THEN [pool |-> sp1, data |-> None,
             metrics |-> [pool |-> "standard", found |-> FALSE]]
       ELSE [pool |-> sp1,
             data |-> StandardPool_decrypt(sp1.storage[key]),
             metrics |-> [pool |-> "standard", found |-> TRUE,
                          access_count |-> sp1.access_count]]

\* del d[key]
DictDel(d, key) == [k \in DOMAIN d \ {key} |-> d[k]]

\* a delete that reports success whether or not the key was there
StandardPool_delete_always_true(sp, key) ==
    [pool |-> [sp EXCEPT !.storage = DictDel(@, key)], result |-> TRUE]

\* StandardPool.delete
StandardPool_delete(sp, key) ==
    IF key \in DOMAIN sp.storage
    THEN [pool |-> [sp EXCEPT !.storage = DictDel(@, key)], result |-> TRUE]
    ELSE [pool |-> sp, result |-> FALSE]

\* StandardPool.get_metrics
StandardPool_get_metrics(sp) ==
    [pool_type |-> "standard",
     entries |-> Cardinality(DOMAIN sp.storage),
     access_count |-> sp.access_count,
     overhead |-> "O(1)"]

----------------------------------------------------------------------------
(* ACBRouter *)

\* ACBRouter.SENSITIVE_PREFIXES
SENSITIVE_PREFIXES ==
    << <<"s","e","s","s","i","o","n","_","k","e","y",":">>,
       <<"e","p","h","e","m","e","r","a","l",":">>,
       <<"s","e","c","r","e","t",":">>,
       <<"c","r","e","d","e","n","t","i","a","l",":">>,
       <<"p","r","i","v","a","t","e",":">>,
       <<"t","o","k","e","n",":">> >>

\* str.lower on one character
UpperCase == <<"A","B","C","D","E","F","G","H","I","J","K","L","M",
               "N","O","P","Q","R","S","T","U","V","W","X","Y","Z">>
LowerCase == <<"a","b","c","d","e","f","g","h","i","j","k","l","m",
               "n","o","p","q","r","s","t","u","v","w","x","y","z">>
UpperToLower ==
    [c \in Range(UpperCase) |-> LowerCase[CHOOSE i \in 1..Len(UpperCase) : UpperCase[i] = c]]
LowerChar(c) == IF c \in DOMAIN UpperToLower THEN UpperToLower[c] ELSE c

\* str.lower
str_lower(key) == [i \in 1..Len(key) |-> LowerChar(key[i])]

\* str.startswith
str_startswith(str, prefix) ==
    /\ Len(str) >= Len(prefix)
    /\ SubSeq(str, 1, Len(prefix)) = prefix

\* any(key_lower.startswith(prefix) for prefix in prefixes)
RECURSIVE AnyStartsWith(_, _)
AnyStartsWith(key_lower, prefixes) ==
    IF prefixes = <<>> THEN FALSE
    ELSE IF str_startswith(key_lower, Head(prefixes)) THEN TRUE
    ELSE AnyStartsWith(key_lower, Tail(prefixes))

\* _is_sensitive without the lower-casing
is_sensitive_case_sensitive(key) == AnyStartsWith(key, SENSITIVE_PREFIXES)

\* ACBRouter._is_sensitive
is_sensitive(key) ==
    \E key_lower \in {str_lower(key)} : AnyStartsWith(key_lower, SENSITIVE_PREFIXES)

\* ACBRouter.__init__: the counters; the pools are built beside it
ACBRouter_init == [oram_routes |-> 0, standard_routes |-> 0]

\* ACBRouter.store that counts every call as an ORAM route
ACBRouter_store_counts_oram(r, p, e, sp, key, value, rand1, rand2, nonce) ==
    IF is_sensitive(key)
    THEN LET st == ORAMPool_store(p, e, key, value, rand1, rand2)
         IN [router |-> [r EXCEPT !.oram_routes = @ + 1],
             oram_pool |-> st.pool, oram |-> st.oram, standard_pool |-> sp,
             result |-> [pool |-> st.metrics.pool,
                         access_count |-> st.metrics.access_count,
                         path_length |-> st.metrics.path_length,
                         routed_to |-> "oram",
                         reason |-> "sensitive_prefix"]]
    ELSE LET st == StandardPool_store(sp, key, value, nonce)
         IN [router |-> [r EXCEPT !.oram_routes = @ + 1],
             oram_pool |-> p, oram |-> e, standard_pool |-> st.pool,
             result |-> [pool |-> st.metrics.pool,
                         access_count |-> st.metrics.access_count,
                         overhead |-> st.metrics.overhead,
                         routed_to |-> "standard",
                         reason |-> "non_sensitive"]]

\* ACBRouter.store that sends every key to the Standard pool
ACBRouter_store_standard_only(r, p, e, sp, key, value, rand1, rand2, nonce) ==
    LET st == StandardPool_store(sp, key, value, nonce)
    IN [router |-> [r EXCEPT !.standard_routes = @ + 1],
        oram_pool |-> p, oram |-> e, standard_pool |-> st.pool,
        result |-> [pool |-> st.metrics.pool,
                    access_count |-> st.metrics.access_count,
                    overhead |-> st.metrics.overhead,
                    routed_to |-> "standard",
                    reason |-> "non_sensitive"]]

\* ACBRouter.store.  Returns the four objects after the call and the result dict.
ACBRouter_store(r, p, e, sp, key, value, rand1, rand2, nonce) ==
    IF is_sensitive(key)
    THEN LET st == ORAMPool_store(p, e, key, value, rand1, rand2)
         IN [router |-> [r EXCEPT !.oram_routes = @ + 1],
             oram_pool |-> st.pool, oram |-> st.oram, standard_pool |-> sp,
             result |-> [pool |-> st.metrics.pool,
                         access_count |-> st.metrics.access_count,
                         path_length |-> st.metrics.path_length,
                         routed_to |-> "oram",
                         reason |-> "sensitive_prefix"]]
    ELSE LET st == StandardPool_store(sp, key, value, nonce)
         IN [router |-> [r EXCEPT !.standard_routes = @ + 1],
             oram_pool |-> p, oram |-> e, standard_pool |-> st.pool,
             result |-> [pool |-> st.metrics.pool,
                         access_count |-> st.metrics.access_count,
                         overhead |-> st.metrics.overhead,
                         routed_to |-> "standard",
                         reason |-> "non_sensitive"]]

\* ACBRouter.retrieve that always asks the Standard pool
ACBRouter_retrieve_standard_only(r, p, e, sp, key, rand1, rand2) ==
    LET rt == StandardPool_retrieve(sp, key)
    IN [router |-> r, oram_pool |-> p, oram |-> e, standard_pool |-> rt.pool,
        data |-> rt.data,
        metrics |-> [x \in DOMAIN rt.metrics \cup {"routed_from"} |->
                        IF x = "routed_from" THEN "standard" ELSE rt.metrics[x]]]

\* ACBRouter.retrieve
ACBRouter_retrieve(r, p, e, sp, key, rand1, rand2) ==
    IF is_sensitive(key)
    THEN LET rt == ORAMPool_retrieve(p, e, key, rand1, rand2)
         IN [router |-> r, oram_pool |-> rt.pool, oram |-> rt.oram, standard_pool |-> sp,
             data |-> rt.data,
             metrics |-> [x \in DOMAIN rt.metrics \cup {"routed_from"} |->
                             IF x = "routed_from" THEN "oram" ELSE rt.metrics[x]]]
    ELSE LET rt == StandardPool_retrieve(sp, key)
         IN [router |-> r, oram_pool |-> p, oram |-> e, standard_pool |-> rt.pool,
             data |-> rt.data,
             metrics |-> [x \in DOMAIN rt.metrics \cup {"routed_from"} |->
                             IF x = "routed_from" THEN "standard" ELSE rt.metrics[x]]]

\* ACBRouter.get_metrics.  oram_percentage is the quotient of the two numbers
\* of the pair, times 100 (0 when there are no routes).
ACBRouter_get_metrics(r, p, e, sp) ==
    [routing |-> [oram_routes |-> r.oram_routes,
                  standard_routes |-> r.standard_routes,
                  total_routes |-> r.oram_routes + r.standard_routes,
                  oram_percentage |->
                      IF r.oram_routes + r.standard_routes > 0
                      THEN <<r.oram_routes * 100, r.oram_routes + r.standard_routes>>
                      ELSE <<0, 1>>],
     oram_pool |-> ORAMPool_get_metrics(p, e),
     standard_pool |-> StandardPool_get_metrics(sp)]

----------------------------------------------------------------------------
(* The enclave application (app.py) *)

\* A value of a JSON document: its type and its text.  A string's text is its
\* characters, a number's its digits, an object's what json.dumps writes.
JStr(s) == [t |-> "str", v |-> s]
JNum(s) == [t |-> "num", v |-> s]
JNull == [t |-> "null", v |-> <<>>]
JObject(s) == [t |-> "dict", v |-> s]

\* bool(x) of a JSON value: None, "", 0 and {} are false
Truthy(j) ==
    CASE j.t = "null" -> FALSE
      [] j.t = "str" -> j.v # <<>>
      [] j.t = "num" -> j.v # <<"0">>
      [] j.t = "dict" -> j.v # <<"{", "}">>

\* req.get(f)
dict_get(req, f) == IF f \in DOMAIN req THEN req[f] ELSE JNull

\* {**a, **b}
DictMerge(a, b) ==
    [x \in DOMAIN a \cup DOMAIN b |-> IF x \in DOMAIN b THEN b[x] ELSE a[x]]

\* str.encode('utf-8') on the characters the requests use
Utf8 == ("v" :> 118) @@ ("5" :> 53) @@ ("{" :> 123) @@ ("}" :> 125)
str_encode(s) == [i \in 1..Len(s) |-> Utf8[s[i]]]

\* bytes.decode('utf-8') succeeds: every byte the model stores is a
\* one-byte character or, from 128 on, a byte that starts no character
Utf8Valid(data) == \A i \in 1..Len(data) : data[i] < 128

\* json.loads(text) succeeds on the texts the model stores: a decimal
\* number or the empty object
JsonParses(data) ==
    \/ /\ data # <<>>
       /\ \A i \in 1..Len(data) : data[i] \in 48..57
       /\ Len(data) > 1 => data[1] # 48
    \/ data = <<123, 125>>

\* the strings app.py compares the request type with
Str_ping == <<"p","i","n","g">>
Str_configure == <<"c","o","n","f","i","g","u","r","e">>
Str_store == <<"s","t","o","r","e">>
Str_retrieve == <<"r","e","t","r","i","e","v","e">>
Str_metrics == <<"m","e","t","r","i","c","s">>
Str_health == <<"h","e","a","l","t","h">>

\* the module's globals at import, and run_server listening
App_init ==
    [CREDENTIALS |-> [ak |-> JNull, sk |-> JNull, token |-> JNull],
     ENCRYPTION_KEY |-> None,
     ACB |-> None,
     serving |-> TRUE]

\* handle_configure builds ACBRouter(oram_capacity=256, oram_block_size=256);
\* the model builds the same Router over a pool of AcbConfig[1] blocks of
\* AcbConfig[2] bytes
AcbConfig == <<2, 2>>

\* AESGCM(key) accepts keys of 128, 192 and 256 bits
AESGCM_key_ok(key) == Len(key) \in {16, 24, 32}

\* kms_decrypt, after its first print.  kms is what the KMS tool run gives:
\* a plaintext, or an error text.  A command line with an element that is
\* not a string makes subprocess.run raise, which the function catches.
kms_decrypt(creds, ciphertext_b64, kms) ==
    IF \E c \in {creds.ak, creds.sk, creds.token, ciphertext_b64} : c.t # "str"
    THEN [tsk_bytes |-> None, err |-> Some("exception")]
    ELSE kms

\* The result of a handler: the globals and the Router's objects after it,
\* and either the response or the fact that it raised.
Returned(g, response) == [g |-> g, raised |-> FALSE, response |-> response]
Raised(g) == [g |-> g, raised |-> TRUE, response |-> [status |-> "none"]]

required_fields ==
    <<"aws_access_key_id", "aws_secret_access_key", "aws_session_token", "encrypted_tsk">>

\* handle_configure
handle_configure(g, req, kms) ==
    LET missing == SelectSeq(required_fields, LAMBDA f : ~Truthy(dict_get(req, f)))
        creds == [ak |-> dict_get(req, "aws_access_key_id"),
                  sk |-> dict_get(req, "aws_secret_access_key"),
                  token |-> dict_get(req, "aws_session_token")]
        tsk_b64 == dict_get(req, "encrypted_tsk")
        g1 == [g EXCEPT !.CREDENTIALS = creds]
        dec == kms_decrypt(creds, tsk_b64, kms)
        g2 == [g1 EXCEPT !.ENCRYPTION_KEY = dec.tsk_bytes]
    IN IF missing # <<>>
       THEN Returned(g, [status |-> "error", msg |-> "missing_fields",
                         details |-> missing])
       ELSE IF creds.ak.t # "str"          \* CREDENTIALS['ak'][:10]
       THEN Raised(g1)
       ELSE IF tsk_b64.t # "str"           \* len(ciphertext_b64)
       THEN Raised(g1)
       ELSE IF dec.tsk_bytes # None /\ dec.tsk_bytes[1] # <<>>
       THEN IF ~AESGCM_key_ok(dec.tsk_bytes[1])    \* AESGCM(key) in PathORAM.__init__
            THEN Raised(g2)
            ELSE Returned([g2 EXCEPT !.ACB = Some("ACBRouter"),
                                     !.router = ACBRouter_init,
                                     !.oram_pool = ORAMPool_init,
                                     !.oram = ORAMPool_engine(AcbConfig[1], AcbConfig[2]),
                                     !.standard_pool = StandardPool_init],
                          [status |-> "ok", msg |-> "configured",
                           acb_enabled |-> TRUE, oram_enabled |-> TRUE])
       ELSE Returned(g1, [status |-> "error", msg |-> "kms_decrypt_failed",
                          details |-> dec.err])

\* ACB.store(key, value) with a value that is not bytes: the call raises once
\* the pool touches the value, after the Router has counted the route, the
\* ORAM pool has looked up or assigned the block id, the Standard pool has
\* counted the access
ACBRouter_store_not_bytes(g, key) ==
    IF is_sensitive(key)
    THEN [g EXCEPT !.router.oram_routes = @ + 1,
                   !.oram_pool = get_block_id(g.oram_pool, key).pool]
    ELSE [g EXCEPT !.router.standard_routes = @ + 1,
                   !.standard_pool.access_count = @ + 1]

\* the end of handle_store: metrics is what ACB.store returned
stored(g, key, st) ==
    Returned([g EXCEPT !.router = st.router, !.oram_pool = st.oram_pool,
                       !.oram = st.oram, !.standard_pool = st.standard_pool],
             DictMerge([status |-> "ok", msg |-> "stored", key |-> key], st.result))

\* handle_store that takes an empty value for a missing one
handle_store_not_value(g, req, rand1, rand2, nonce) ==
    LET key == dict_get(req, "key")
        value == dict_get(req, "value")
    IN IF g.ACB = None
       THEN Returned(g, [status |-> "error", msg |-> "not_configured",
                         details |-> "Call configure first"])
       ELSE IF ~Truthy(key) \/ ~Truthy(value)
       THEN Returned(g, [status |-> "error", msg |-> "missing_params",
                         details |-> "key and value required"])
       ELSE IF key.t # "str"
       THEN Raised(g)
       ELSE IF value.t \notin {"str", "dict"}
       THEN Raised(ACBRouter_store_not_bytes(g, key.v))
       ELSE stored(g, key.v,
                   ACBRouter_store(g.router, g.oram_pool, g.oram, g.standard_pool,
                                   key.v, str_encode(value.v), rand1, rand2, nonce))

\* handle_store
handle_store(g, req, rand1, rand2, nonce) ==
    LET key == dict_get(req, "key")
        value == dict_get(req, "value")
    IN IF g.ACB = None
       THEN Returned(g, [status |-> "error", msg |-> "not_configured",
                         details |-> "Call configure first"])
       ELSE IF ~Truthy(key) \/ value.t = "null"
       THEN Returned(g, [status |-> "error", msg |-> "missing_params",
                         details |-> "key and value required"])
       ELSE IF key.t # "str"               \* key.lower()
       THEN Raised(g)
       ELSE IF value.t \notin {"str", "dict"}
       THEN Raised(ACBRouter_store_not_bytes(g, key.v))
       ELSE stored(g, key.v,
                   ACBRouter_store(g.router, g.oram_pool, g.oram, g.standard_pool,
                                   key.v, str_encode(value.v), rand1, rand2, nonce))

\* the value handle_retrieve answers with: the text, the JSON document the
\* text parses to, or the base64 of the bytes
retrieve_value(data) ==
    IF Utf8Valid(data)
    THEN IF JsonParses(data) THEN [as |-> "json", of |-> data]
         ELSE [as |-> "str", of |-> data]
    ELSE [as |-> "base64", of |-> data]

\* the end of handle_retrieve: rt is what ACB.retrieve returned and did
retrieved(g, key, rt) ==
    LET g1 == [g EXCEPT !.router = rt.router, !.oram_pool = rt.oram_pool,
                        !.oram = rt.oram, !.standard_pool = rt.standard_pool]
    IN IF rt.data = None
       THEN Returned(g1, DictMerge([status |-> "ok", msg |-> "not_found",
                                    key |-> key], rt.metrics))
       ELSE Returned(g1, DictMerge([status |-> "ok", msg |-> "retrieved",
                                    key |-> key,
                                    value |-> retrieve_value(rt.data[1])],
                                   rt.metrics))

\* handle_retrieve
handle_retrieve(g, req, rand1, rand2) ==
    LET key == dict_get(req, "key")
    IN IF g.ACB = None
       THEN Returned(g, [status |-> "error", msg |-> "not_configured",
                         details |-> "Call configure first"])
       ELSE IF ~Truthy(key)
       THEN Returned(g, [status |-> "error", msg |-> "missing_params",
                         details |-> "key required"])
       ELSE IF key.t # "str"               \* key.lower()
       THEN Raised(g)
       ELSE retrieved(g, key.v,
                      ACBRouter_retrieve(g.router, g.oram_pool, g.oram, g.standard_pool,
                                         key.v, rand1, rand2))

\* a metrics handler that does not look at ACB first
handle_metrics_unguarded(g, req) ==
    Returned(g, DictMerge([status |-> "ok", msg |-> "metrics"],
                          ACBRouter_get_metrics(g.router, g.oram_pool,
                                                g.oram, g.standard_pool)))

\* handle_metrics
handle_metrics(g, req) ==
    IF g.ACB = None
    THEN Returned(g, [status |-> "error", msg |-> "not_configured"])
    ELSE Returned(g, DictMerge([status |-> "ok", msg |-> "metrics"],
                               ACBRouter_get_metrics(g.router, g.oram_pool,
                                                     g.oram, g.standard_pool)))

\* the dispatch on the request type inside run_server's loop
dispatch(g, req, rand1, rand2, nonce, kms) ==
    LET msg_type == dict_get(req, "type")
    IN IF msg_type = JStr(Str_ping)
       THEN Returned(g, [status |-> "ok", msg |-> "pong", oram_enabled |-> TRUE])
       ELSE IF msg_type = JStr(Str_configure) THEN handle_configure(g, req, kms)
       ELSE IF msg_type = JStr(Str_store) THEN handle_store(g, req, rand1, rand2, nonce)
       ELSE IF msg_type = JStr(Str_retrieve) THEN handle_retrieve(g, req, rand1, rand2)
       ELSE IF msg_type = JStr(Str_metrics) THEN handle_metrics(g, req)
       ELSE IF msg_type = JStr(Str_health)
       THEN Returned(g, [status |-> "healthy",
                         configured |-> g.ENCRYPTION_KEY # None,
                         acb_enabled |-> g.ACB # None])
       ELSE Returned(g, [status |-> "error", msg |-> "unknown_type"])

\* the result of one pass of the loop: the globals and the Router's objects
\* after it, the responses sent on the connection, whether the connection was
\* closed, and whether the loop goes on to the next accept
Pass(g, sent, closed, serving) ==
    [g |-> g, sent |-> sent, closed |-> closed, serving |-> serving]

internal_error == [status |-> "error", msg |-> "internal_error"]

\* a loop whose handler exceptions reach the outer except clause: nothing is
\* sent and the connection stays open
respond_outer_except(h) ==
    IF h.raised THEN Pass(h.g, <<>>, FALSE, TRUE)
    ELSE Pass(h.g, <<h.response>>, TRUE, TRUE)

\* the end of the try block: the handler's response is sent, or its exception
\* is answered internal_error; then the connection is closed
respond(h) ==
    IF h.raised THEN Pass(h.g, <<internal_error>>, TRUE, TRUE)
    ELSE Pass(h.g, <<h.response>>, TRUE, TRUE)

\* One pass of run_server's loop over a connection on which data arrives.
run_server(g, data, rand1, rand2, nonce, kms) ==
    IF data.kind = "empty"                    \* if not data: close, continue
    THEN Pass(g, <<>>, TRUE, TRUE)
    ELSE IF data.kind = "not_utf8"            \* data.decode raises
    THEN Pass(g, <<internal_error>>, TRUE, TRUE)
    ELSE IF data.kind = "not_json"            \* json.loads raises
    THEN Pass(g, <<[status |-> "error", msg |-> "invalid_json"]>>, TRUE, TRUE)
    ELSE IF data.kind = "not_object"          \* req.get raises
    THEN Pass(g, <<internal_error>>, TRUE, TRUE)
    ELSE respond(dispatch(g, data.req, rand1, rand2, nonce, kms))

----------------------------------------------------------------------------
(* The host: ORAMSecureWorkflow (workflows.py) and its activities *)

\* the keys the workflow stores and retrieves
Key_session ==
    <<"s","e","s","s","i","o","n","_","k","e","y",":",
      "a","g","e","n","t","_","a","_","s","e","s","s","i","o","n">>
Key_state ==
    <<"w","o","r","k","f","l","o","w",":",
      "s","t","a","t","e","_","c","h","e","c","k","p","o","i","n","t","_","1">>
Key_ephemeral ==
    <<"e","p","h","e","m","e","r","a","l",":","t","e","m","p","_","t","o","k","e","n">>
Key_metadata ==
    <<"m","e","t","a","d","a","t","a",":",
      "a","g","e","n","t","_","b","_","p","r","o","c","e","s","s","e","d">>

\* the values the workflow stores, each a str: a text ("v" stands for the
\* session value and for the token) or the text of a JSON object
Value_text == <<"v">>
Value_json == <<"{", "}">>

\* the request each activity hands to send_to_enclave
configure_enclave(config) ==
    [type |-> JStr(Str_configure),
     aws_access_key_id |-> config.aws_access_key_id,
     aws_secret_access_key |-> config.aws_secret_access_key,
     aws_session_token |-> config.aws_session_token,
     encrypted_tsk |-> config.encrypted_tsk]
store_sensitive_data(key, value) ==
    [type |-> JStr(Str_store), key |-> JStr(key), value |-> JStr(value)]
retrieve_sensitive_data(key) == [type |-> JStr(Str_retrieve), key |-> JStr(key)]
get_acb_metrics == [type |-> JStr(Str_metrics)]

\* send_to_enclave's result when the socket fails
vsock_error == [status |-> "error", msg |-> "vsock_error"]

\* a run that has not started: pc is the activity the run executes next
\* (1 configure, 2 to 7 the steps 2 to 7 of run, 8 returned)
Workflow_init == [pc |-> 1, result |-> None, retrieved |-> None]

\* the activity requests of run in program order, for the config passed in
WorkflowRequest(pc, config) ==
    CASE pc = 1 -> configure_enclave(config)
      [] pc = 2 -> store_sensitive_data(Key_session, Value_text)
      [] pc = 3 -> store_sensitive_data(Key_state, Value_json)
      [] pc = 4 -> retrieve_sensitive_data(Key_session)
      [] pc = 5 -> store_sensitive_data(Key_ephemeral, Value_text)
      [] pc = 6 -> store_sensitive_data(Key_metadata, Value_json)
      [] pc = 7 -> get_acb_metrics

\* run that goes on to the stores whatever configure answered
ORAMSecureWorkflow_run_unchecked(w, response) ==
    IF w.pc = 4 THEN [w EXCEPT !.pc = 5, !.retrieved = Some(response)]
    ELSE IF w.pc = 7
    THEN [w EXCEPT !.pc = 8,
                   !.result = Some([status |-> "ok",
                                    session_key_value |-> dict_get(w.retrieved[1], "value"),
                                    acb_metrics |-> response])]
    ELSE [w EXCEPT !.pc = @ + 1]

\* ORAMSecureWorkflow.run from the return of the activity at w.pc, whose
\* result is response, to the next execute_activity or to the return
ORAMSecureWorkflow_run(w, response) ==
    IF w.pc = 1
    THEN IF response.status # "ok"
         THEN [w EXCEPT !.pc = 8,
                        !.result = Some([status |-> "error", stage |-> "configure",
                                         details |-> response])]
         ELSE [w EXCEPT !.pc = 2]
    ELSE IF w.pc = 4 THEN [w EXCEPT !.pc = 5, !.retrieved = Some(response)]
    ELSE IF w.pc = 7
    THEN [w EXCEPT !.pc = 8,
                   !.result = Some([status |-> "ok",
                                    session_key_value |-> dict_get(w.retrieved[1], "value"),
                                    acb_metrics |-> response])]
    ELSE [w EXCEPT !.pc = @ + 1]

----------------------------------------------------------------------------
(* The engine used directly: PathORAM(num_blocks, block_size, bucket_capacity), *)
(* then any sequence of read and write calls.                                   *)

\* constructor arguments (num_blocks, block_size, bucket_capacity): heights 1
\* and 2, buckets of one and two blocks
EngineConfigs == {<<1, 2, 1>>, <<2, 2, 2>>, <<4, 2, 1>>}

\* arguments of read and write.  The taller tree, whose accesses draw from
\* four leaves, is explored with fewer ids and payloads.
EngineBlockIds(e) == IF e.height = 1 THEN {0, 1, 2} ELSE {0, 1}
EngineData(e) == IF e.height = 1 THEN {<<1>>, <<2, 0, 1>>} ELSE {<<2, 0, 1>>}

Leaves(e) == 0..(e.num_leaves - 1)

\* the values secrets.randbelow can return at line 174: it is called only when
\* block_id has no position yet
FirstDraws(e, block_id) ==
    IF block_id \in DOMAIN e.position_map THEN {e.position_map[block_id]} ELSE Leaves(e)

InitEngine ==
    /\ \E c \in EngineConfigs : oram = PathORAM_init(c[1], c[2], c[3])
    /\ oram_pool = ORAMPool_init
    /\ standard_pool = StandardPool_init
    /\ router = ACBRouter_init
    /\ obs = [op |-> "init"]
    /\ hist = <<>>
    /\ app = App_init
    /\ workflow = Workflow_init

\* oram.read(block_id)
EngineRead(block_id, rand1, rand2) ==
    /\ oram.access_count < MaxAccess
    /\ \E r \in {PathORAM_read(oram, block_id, rand1, rand2)} :
          /\ oram' = r.oram
          /\ obs' = [op |-> "read", block_id |-> block_id, result |-> r.result,
                     old_leaf |-> r.old_leaf, new_leaf |-> r.new_leaf,
                     reads |-> r.reads, writes |-> r.writes]
    /\ UNCHANGED <<app, workflow, oram_pool, standard_pool, router, hist>>

\* oram.write(block_id, data)
EngineWrite(block_id, data, rand1, rand2) ==
    /\ oram.access_count < MaxAccess
    /\ \E r \in {PathORAM_write(oram, block_id, data, rand1, rand2)} :
          /\ oram' = r.oram
          /\ obs' = [op |-> "write", block_id |-> block_id, result |-> r.result,
                     old_leaf |-> r.old_leaf, new_leaf |-> r.new_leaf,
                     reads |-> r.reads, writes |-> r.writes]
    /\ hist' = DictPut(hist, block_id,
                       [data |-> data, rewritten |-> block_id \in DOMAIN hist])
    /\ UNCHANGED <<app, workflow, oram_pool, standard_pool, router>>

NextEngine ==
    \/ \E block_id \in EngineBlockIds(oram) :
          \E rand1 \in FirstDraws(oram, block_id), rand2 \in Leaves(oram) :
              EngineRead(block_id, rand1, rand2)
    \/ \E block_id \in EngineBlockIds(oram), data \in EngineData(oram) :
          \E rand1 \in FirstDraws(oram, block_id), rand2 \in Leaves(oram) :
              EngineWrite(block_id, data, rand1, rand2)

SpecEngine == InitEngine /\ [][NextEngine]_vars

----------------------------------------------------------------------------
(* The order of the stash: engines of height 1 with buckets of one and of  *)
(* two blocks, three block ids and one payload, any sequence of read and   *)
(* write calls.                                                            *)

OrderConfigs == {<<1, 2, 1>>, <<2, 2, 2>>}
OrderBlockIds == {0, 1, 2}

InitOrder ==
    /\ \E c \in OrderConfigs : oram = PathORAM_init(c[1], c[2], c[3])
    /\ oram_pool = ORAMPool_init
    /\ standard_pool = StandardPool_init
    /\ router = ACBRouter_init
    /\ app = App_init
    /\ workflow = Workflow_init
    /\ obs = [op |-> "init"]
    /\ hist = <<>>

NextOrder ==
    \/ \E block_id \in OrderBlockIds :
          \E rand1 \in FirstDraws(oram, block_id), rand2 \in Leaves(oram) :
              EngineRead(block_id, rand1, rand2)
    \/ \E block_id \in OrderBlockIds :
          \E rand1 \in FirstDraws(oram, block_id), rand2 \in Leaves(oram) :
              EngineWrite(block_id, <<1>>, rand1, rand2)

SpecOrder == InitOrder /\ [][NextOrder]_vars

----------------------------------------------------------------------------
(* Any integer as block id: read and write take block_id: int and check   *)
(* nothing about it, so a caller can pass -1 as well.  The engines are    *)
(* those of the stash order above.                                        *)

AnyBlockIds == {-1, 0, 1}

NextAnyId ==
    \/ \E block_id \in AnyBlockIds :
          \E rand1 \in FirstDraws(oram, block_id), rand2 \in Leaves(oram) :
              EngineRead(block_id, rand1, rand2)
    \/ \E block_id \in AnyBlockIds :
          \E rand1 \in FirstDraws(oram, block_id), rand2 \in Leaves(oram) :
              EngineWrite(block_id, <<1>>, rand1, rand2)

SpecAnyId == InitOrder /\ [][NextAnyId]_vars

----------------------------------------------------------------------------
(* The engine filled beyond its tree: PathORAM(1, 1, 1), three buckets of   *)
(* one block, then writes of block ids 0, 1, 2, ... each for the first time. *)

\* writes made before the model stops
MaxFill == 132

\* The leaves drawn by a write: any leaf during the first MaxAccess writes,
\* leaf 0 from then on.  Whatever is drawn, the tree holds at most
\* num_buckets * bucket_capacity of the blocks written.
FillDraws == IF oram.access_count < MaxAccess THEN Leaves(oram) ELSE {0}

InitFill ==
    /\ oram = PathORAM_init(1, 1, 1)
    /\ oram_pool = ORAMPool_init
    /\ standard_pool = StandardPool_init
    /\ router = ACBRouter_init
    /\ app = App_init
    /\ workflow = Workflow_init
    /\ obs = [op |-> "init"]
    /\ hist = <<>>

\* oram.write(block_id, data) for the next unused block id
FillWrite(rand1, rand2) ==
    /\ oram.access_count < MaxFill
    /\ \E r \in {PathORAM_write(oram, oram.access_count, <<1>>, rand1, rand2)} :
          /\ oram' = r.oram
          /\ obs' = [op |-> "write", block_id |-> oram.access_count,
                     result |-> r.result]
    /\ UNCHANGED <<app, workflow, oram_pool, standard_pool, router, hist>>

NextFill ==
    \/ \E rand1 \in FillDraws, rand2 \in FillDraws : FillWrite(rand1, rand2)

SpecFill == InitFill /\ [][NextFill]_vars

----------------------------------------------------------------------------
(* The engine's geometry: PathORAM(num_blocks) for every capacity up to the  *)
(* largest tree of the model, then get_metrics; the engine of one block is   *)
(* also written and read.                                                    *)

GeometryBlocks == 1..Pow2(MaxHeight)

InitGeometry ==
    /\ \E num_blocks \in GeometryBlocks : oram = PathORAM_init(num_blocks, 2, 1)
    /\ oram_pool = ORAMPool_init
    /\ standard_pool = StandardPool_init
    /\ router = ACBRouter_init
    /\ app = App_init
    /\ workflow = Workflow_init
    /\ obs = [op |-> "init"]
    /\ hist = <<>>

\* oram.get_metrics()
GeometryGetMetrics ==
    /\ obs' = [op |-> "get_metrics", metrics |-> PathORAM_get_metrics(oram)]
    /\ UNCHANGED <<oram, app, workflow, oram_pool, standard_pool, router, hist>>

NextGeometry ==
    \/ GeometryGetMetrics
    \/ /\ oram.num_blocks = 1
       /\ \E data \in EngineData(oram) :
             \E rand1 \in FirstDraws(oram, 0), rand2 \in Leaves(oram) :
                 EngineWrite(0, data, rand1, rand2)
    \/ /\ oram.num_blocks = 1
       /\ \E rand1 \in FirstDraws(oram, 0), rand2 \in Leaves(oram) :
             EngineRead(0, rand1, rand2)

SpecGeometry == InitGeometry /\ [][NextGeometry]_vars

----------------------------------------------------------------------------
(* The paths of the tree: PathORAM(num_blocks) for a tree of every height   *)
(* of the model, one read that gives block 0 a position, then               *)
(* _get_path_indices for every leaf and _can_place_on_path for every        *)
(* bucket index, the two next to the tree's range included.                 *)

\* num_blocks arguments: one tree of each height
PathBlocks == {Pow2(h) : h \in 1..MaxHeight}

InitPath ==
    /\ \E num_blocks \in PathBlocks : oram = PathORAM_init(num_blocks, 2, 1)
    /\ oram_pool = ORAMPool_init
    /\ standard_pool = StandardPool_init
    /\ router = ACBRouter_init
    /\ app = App_init
    /\ workflow = Workflow_init
    /\ obs = [op |-> "init"]
    /\ hist = <<>>

\* block ids asked about: 0 can have a position, 1 never has one
PathBlockIds == {0, 1}

\* oram._get_path_indices(leaf)
GetPathIndices(leaf) ==
    /\ obs' = [op |-> "get_path_indices", leaf |-> leaf,
               path |-> get_path_indices(oram.height, leaf)]
    /\ UNCHANGED <<oram, app, workflow, oram_pool, standard_pool, router, hist>>

\* oram._can_place_on_path(block_id, bucket_idx)
CanPlaceOnPath(block_id, bucket_idx) ==
    /\ obs' = [op |-> "can_place_on_path", block_id |-> block_id,
               bucket_idx |-> bucket_idx,
               result |-> can_place_on_path(oram.position_map, oram.height,
                                            block_id, bucket_idx)]
    /\ UNCHANGED <<oram, app, workflow, oram_pool, standard_pool, router, hist>>

NextPath ==
    \/ /\ oram.position_map = <<>>
       /\ \E rand2 \in Leaves(oram) : EngineRead(0, 0, rand2)
    \/ \E leaf \in Leaves(oram) : GetPathIndices(leaf)
    \/ \E block_id \in PathBlockIds, bucket_idx \in (-1)..oram.num_buckets :
          CanPlaceOnPath(block_id, bucket_idx)

SpecPath == InitPath /\ [][NextPath]_vars

----------------------------------------------------------------------------
(* History of store calls, by key *)

HistStore(h, key, value, routed_to) ==
    DictPut(h, key,
        IF key \in DOMAIN h
        THEN [value |-> value, prev |-> Some(h[key].value),
              stores |-> h[key].stores + 1,
              routed |-> h[key].routed \cup {routed_to}]
        ELSE [value |-> value, prev |-> None, stores |-> 1, routed |-> {routed_to}])

----------------------------------------------------------------------------
(* The ORAM pool used directly: ORAMPool(capacity, block_size), then any *)
(* sequence of store and retrieve calls.                                  *)

\* constructor arguments (capacity, block_size)
PoolConfigs == {<<1, 2>>, <<2, 1>>}

\* keys and values
PoolKeys == {<<"k","1">>, <<"k","2">>}
PoolValues == {<<1>>, <<1, 0>>, <<0, 1, 2>>}

\* the id an ORAM pool call on key passes to the engine
PoolBlockId(p, key) == IF key \in DOMAIN p.key_to_id THEN p.key_to_id[key] ELSE p.next_id

InitPool ==
    /\ \E c \in PoolConfigs : oram = ORAMPool_engine(c[1], c[2])
    /\ oram_pool = ORAMPool_init
    /\ standard_pool = StandardPool_init
    /\ router = ACBRouter_init
    /\ obs = [op |-> "init"]
    /\ hist = <<>>
    /\ app = App_init
    /\ workflow = Workflow_init

\* pool.store(key, value)
PoolStore(key, value, rand1, rand2) ==
    /\ oram.access_count < MaxAccess
    /\ \E st \in {ORAMPool_store(oram_pool, oram, key, value, rand1, rand2)} :
          /\ oram_pool' = st.pool
          /\ oram' = st.oram
          /\ obs' = [op |-> "pool_store", key |-> key, value |-> value,
                     metrics |-> st.metrics]
    /\ hist' = HistStore(hist, key, value, "oram")
    /\ UNCHANGED <<app, workflow, standard_pool, router>>

\* pool.retrieve(key)
PoolRetrieve(key, rand1, rand2) ==
    /\ oram.access_count < MaxAccess
    /\ \E rt \in {ORAMPool_retrieve(oram_pool, oram, key, rand1, rand2)} :
          /\ oram_pool' = rt.pool
          /\ oram' = rt.oram
          /\ obs' = [op |-> "pool_retrieve", key |-> key, data |-> rt.data,
                     metrics |-> rt.metrics]
    /\ UNCHANGED <<app, workflow, standard_pool, router, hist>>

\* the draws a retrieve can make: none on a miss, which returns before the engine
PoolRetrieveDraws1(key) ==
    IF key \in DOMAIN oram_pool.key_to_id
    THEN FirstDraws(oram, oram_pool.key_to_id[key])
    ELSE {0}
PoolRetrieveDraws2(key) ==
    IF key \in DOMAIN oram_pool.key_to_id THEN Leaves(oram) ELSE {0}

NextPool ==
    \/ \E key \in PoolKeys, value \in PoolValues :
          \E rand1 \in FirstDraws(oram, PoolBlockId(oram_pool, key)), rand2 \in Leaves(oram) :
              PoolStore(key, value, rand1, rand2)
    \/ \E key \in PoolKeys :
          \E rand1 \in PoolRetrieveDraws1(key), rand2 \in PoolRetrieveDraws2(key) :
              PoolRetrieve(key, rand1, rand2)

SpecPool == InitPool /\ [][NextPool]_vars

----------------------------------------------------------------------------
(* The standard pool used directly: StandardPool(), then any sequence of  *)
(* store, retrieve and delete calls.  hist.map is the plain key-to-value   *)
(* map the same calls build; hist.replaced holds the keys whose entry       *)
(* replaced an earlier one, hist.deleted the keys removed and not stored    *)
(* since.                                                                   *)

\* store and retrieve calls made on one standard pool before the model stops
MaxStandardAccess == 4

\* draws of os.urandom(12)
StandardNonces == {0, 1}

StandardKeys == {<<"a">>, <<"b">>, <<"c">>}
StandardValues == {<<1>>, <<2, 0>>}

InitStandard ==
    /\ oram = ORAMPool_engine(1, 1)
    /\ oram_pool = ORAMPool_init
    /\ standard_pool = StandardPool_init
    /\ router = ACBRouter_init
    /\ obs = [op |-> "init"]
    /\ hist = [map |-> <<>>, replaced |-> {}, deleted |-> {}]
    /\ app = App_init
    /\ workflow = Workflow_init

\* pool.store(key, value)
StandardStore(key, value, nonce) ==
    /\ standard_pool.access_count < MaxStandardAccess
    /\ \E st \in {StandardPool_store(standard_pool, key, value, nonce)} :
          /\ standard_pool' = st.pool
          /\ obs' = [op |-> "sp_store", key |-> key, value |-> value,
                     metrics |-> st.metrics]
    /\ hist' = [map |-> DictPut(hist.map, key, value),
                replaced |-> IF key \in DOMAIN hist.map
                             THEN hist.replaced \cup {key} ELSE hist.replaced,
                deleted |-> hist.deleted \ {key}]
    /\ UNCHANGED <<app, workflow, oram, oram_pool, router>>

\* pool.retrieve(key)
StandardRetrieve(key) ==
    /\ standard_pool.access_count < MaxStandardAccess
    /\ \E rt \in {StandardPool_retrieve(standard_pool, key)} :
          /\ standard_pool' = rt.pool
          /\ obs' = [op |-> "sp_retrieve", key |-> key, data |-> rt.data,
                     metrics |-> rt.metrics]
    /\ UNCHANGED <<app, workflow, oram, oram_pool, router, hist>>

\* pool.delete(key)
StandardDelete(key) ==
    /\ \E dl \in {StandardPool_delete(standard_pool, key)} :
          /\ standard_pool' = dl.pool
          /\ obs' = [op |-> "sp_delete", key |-> key, result |-> dl.result]
    /\ hist' = [map |-> DictDel(hist.map, key),
                replaced |-> hist.replaced \ {key},
                deleted |-> IF key \in DOMAIN hist.map
                            THEN hist.deleted \cup {key} ELSE hist.deleted]
    /\ UNCHANGED <<app, workflow, oram, oram_pool, router>>

NextStandard ==
    \/ \E key \in StandardKeys, value \in StandardValues, nonce \in StandardNonces :
          StandardStore(key, value, nonce)
    \/ \E key \in StandardKeys : StandardRetrieve(key)
    \/ \E key \in StandardKeys : StandardDelete(key)

SpecStandard == InitStandard /\ [][NextStandard]_vars

----------------------------------------------------------------------------
(* The Router: ACBRouter(oram_capacity, oram_block_size), then any sequence *)
(* of store, retrieve and get_metrics calls.                                *)

\* constructor arguments (oram_capacity, oram_block_size)
RouterConfigs == {<<2, 2>>}

\* keys: two sensitive (one of them in upper case), two not
RouterKeys ==
    { <<"s","e","c","r","e","t",":","x">>,
      <<"T","O","K","E","N",":","a">>,
      <<"c","o","n","f","i","g",":","s">>,
      <<"s","e","c","r","e","t">> }
RouterValues == {<<1, 0>>, <<0, 1, 2>>}

\* the draws of os.urandom(12)
Nonces == {0, 1}

\* calls the Router still accepts: the model stops after MaxAccess pool accesses
RouterOpen == oram.access_count + standard_pool.access_count < MaxAccess

Init ==
    /\ \E c \in RouterConfigs : oram = ORAMPool_engine(c[1], c[2])
    /\ oram_pool = ORAMPool_init
    /\ standard_pool = StandardPool_init
    /\ router = ACBRouter_init
    /\ obs = [op |-> "init"]
    /\ hist = <<>>
    /\ app = App_init
    /\ workflow = Workflow_init

\* router.store(key, value)
RouterStore(key, value, rand1, rand2, nonce) ==
    /\ RouterOpen
    /\ \E st \in {ACBRouter_store(router, oram_pool, oram, standard_pool,
                               key, value, rand1, rand2, nonce)} :
        /\ router' = st.router
        /\ oram_pool' = st.oram_pool
        /\ oram' = st.oram
        /\ standard_pool' = st.standard_pool
        /\ obs' = [op |-> "store", key |-> key, value |-> value, result |-> st.result]
        /\ hist' = HistStore(hist, key, value, st.result.routed_to)
        /\ UNCHANGED <<app, workflow>>

\* router.retrieve(key)
RouterRetrieve(key, rand1, rand2) ==
    /\ RouterOpen
    /\ \E rt \in {ACBRouter_retrieve(router, oram_pool, oram, standard_pool,
                                  key, rand1, rand2)} :
        /\ router' = rt.router
        /\ oram_pool' = rt.oram_pool
        /\ oram' = rt.oram
        /\ standard_pool' = rt.standard_pool
        /\ obs' = [op |-> "retrieve", key |-> key, data |-> rt.data,
                   metrics |-> rt.metrics]
        /\ UNCHANGED <<app, workflow, hist>>

\* router.get_metrics()
RouterGetMetrics ==
    /\ RouterOpen
    /\ obs' = [op |-> "get_metrics",
               metrics |-> ACBRouter_get_metrics(router, oram_pool, oram, standard_pool)]
    /\ UNCHANGED <<app, workflow, router, oram_pool, oram, standard_pool, hist>>

\* the random draws a Router call on key can make: leaves if the call reaches
\* the engine, a nonce if it seals a value for the Standard pool
ReachesEngine(key, storing) ==
    is_sensitive(key) /\ (storing \/ key \in DOMAIN oram_pool.key_to_id)
LeafDraws1(key, storing) ==
    IF ReachesEngine(key, storing)
    THEN FirstDraws(oram, PoolBlockId(oram_pool, key))
    ELSE {0}
LeafDraws2(key, storing) == IF ReachesEngine(key, storing) THEN Leaves(oram) ELSE {0}
NonceDraws(key) == IF is_sensitive(key) THEN {0} ELSE Nonces

Next ==
    \/ \E key \in RouterKeys, value \in RouterValues :
          \E rand1 \in LeafDraws1(key, TRUE), rand2 \in LeafDraws2(key, TRUE),
             nonce \in NonceDraws(key) :
              RouterStore(key, value, rand1, rand2, nonce)
    \/ \E key \in RouterKeys :
          \E rand1 \in LeafDraws1(key, FALSE), rand2 \in LeafDraws2(key, FALSE) :
              RouterRetrieve(key, rand1, rand2)
    \/ RouterGetMetrics

Spec == Init /\ [][Next]_vars

----------------------------------------------------------------------------
(* The Router's classification over a wider set of keys: store calls only. *)

\* store calls made before the model stops
MaxRoutes == 2

\* every prefix, in lower, upper and mixed case, and keys that only look alike
RoutingKeys ==
    { <<"s","e","s","s","i","o","n","_","k","e","y",":","1">>,
      <<"E","P","H","E","M","E","R","A","L",":","t">>,
      <<"s","e","c","r","e","t",":">>,
      <<"C","r","e","d","e","n","t","i","a","l",":","d","b">>,
      <<"p","r","i","v","a","t","e",":","k">>,
      <<"t","o","K","E","N",":","a">>,
      <<"w","o","r","k","f","l","o","w",":","s","t","e","p">>,
      <<"s","e","c","r","e","t">>,
      <<"m","y","_","s","e","c","r","e","t",":","x">>,
      <<"s","e","s","s","i","o","n","k","e","y",":","1">>,
      <<" ","t","o","k","e","n",":","a">>,
      <<>> }
RoutingValues == {<<1>>}

NextRouting ==
    /\ router.oram_routes + router.standard_routes < MaxRoutes
    /\ \E key \in RoutingKeys, value \in RoutingValues :
          \E rand1 \in LeafDraws1(key, TRUE), rand2 \in LeafDraws2(key, TRUE),
             nonce \in NonceDraws(key) :
              RouterStore(key, value, rand1, rand2, nonce)

SpecRouting == Init /\ [][NextRouting]_vars

----------------------------------------------------------------------------
(* The enclave server: run_server's loop, one request per connection.      *)
(* hist.changes counts the requests that changed the process state,        *)
(* hist.configures the configure requests answered 'configured', and       *)
(* hist.stored maps each key of a request answered 'stored' to the bytes   *)
(* handed to the Router.                                                   *)

\* requests that change the state of the process before the model stops;
\* requests that leave it as it is are served without limit
MaxChanges == 3

\* what arrives on a connection
Request(req) == [kind |-> "json", req |-> req]
NoRequest(k) == [kind |-> k, req |-> <<>>]
Received(kind, req) == IF kind = "json" THEN Request(req) ELSE NoRequest(kind)

PingRequest == [type |-> JStr(Str_ping)]
HealthRequest == [type |-> JStr(Str_health)]
MetricsRequest == [type |-> JStr(Str_metrics)]

ValidConfigure ==
    [type |-> JStr(Str_configure),
     aws_access_key_id |-> JStr(<<"A">>),
     aws_secret_access_key |-> JStr(<<"S">>),
     aws_session_token |-> JStr(<<"T">>),
     encrypted_tsk |-> JStr(<<"C">>)]

ConfigureRequests ==
    {ValidConfigure,
     [type |-> JStr(Str_configure), aws_access_key_id |-> JStr(<<"A">>),
      aws_secret_access_key |-> JStr(<<"S">>), encrypted_tsk |-> JStr(<<"C">>)],
     [ValidConfigure EXCEPT !.aws_secret_access_key = JStr(<<>>)],
     [ValidConfigure EXCEPT !.aws_access_key_id = JNum(<<"5">>)],
     [ValidConfigure EXCEPT !.encrypted_tsk = JNum(<<"5">>)]}

\* the configure requests that get as far as running the KMS tool
ReachesKms(req) ==
    /\ \A i \in 1..Len(required_fields) : Truthy(dict_get(req, required_fields[i]))
    /\ \A i \in 1..Len(required_fields) : dict_get(req, required_fields[i]).t = "str"

\* what the KMS tool run gives: a 32-byte key, a 1-byte plaintext, an empty
\* plaintext, an error
KmsResults ==
    {[tsk_bytes |-> Some(Zeros(32)), err |-> None],
     [tsk_bytes |-> Some(<<7>>), err |-> None],
     [tsk_bytes |-> Some(<<>>), err |-> None],
     [tsk_bytes |-> None, err |-> Some("AccessDenied")]}

AppKeys == {<<"t","o","k","e","n",":","a">>, <<"n">>}

StoreRequests ==
    {[type |-> JStr(Str_store), key |-> JStr(k), value |-> v] :
        k \in AppKeys,
        v \in {JStr(<<>>), JObject(<<"{", "}">>), JNum(<<"5">>), JNull}}
    \cup {[type |-> JStr(Str_store), key |-> k, value |-> JStr(<<"v">>)] :
            k \in {JStr(<<>>), JNum(<<"5">>)}}
    \cup {[type |-> JStr(Str_store), value |-> JStr(<<"v">>)],
          [type |-> JStr(Str_store), key |-> JStr(<<"n">>)]}

RetrieveRequests ==
    {[type |-> JStr(Str_retrieve), key |-> k] :
        k \in {JStr(k) : k \in AppKeys} \cup {JStr(<<>>), JNum(<<"5">>)}}
    \cup {[type |-> JStr(Str_retrieve)]}

OtherRequests ==
    {[type |-> JStr(<<"x">>)], [type |-> JNum(<<"5">>)], [key |-> JStr(<<"n">>)]}

\* the globals and the Router's objects, as the handlers see them
Globals ==
    [CREDENTIALS |-> app.CREDENTIALS, ENCRYPTION_KEY |-> app.ENCRYPTION_KEY,
     ACB |-> app.ACB, router |-> router, oram_pool |-> oram_pool,
     oram |-> oram, standard_pool |-> standard_pool]

InitApp ==
    /\ app = App_init
    /\ workflow = Workflow_init
    /\ router = ACBRouter_init
    /\ oram_pool = ORAMPool_init
    /\ oram = ORAMPool_engine(AcbConfig[1], AcbConfig[2])
    /\ standard_pool = StandardPool_init
    /\ obs = [op |-> "init"]
    /\ hist = [changes |-> 0, configures |-> 0, stored |-> <<>>]

\* the one response sent has this msg
Answered(sent, msg) ==
    /\ Len(sent) = 1
    /\ "msg" \in DOMAIN sent[1]
    /\ sent[1].msg = msg

\* the pass changed the globals or the Router's objects, or built a Router
Changes(rs) == rs.g # Globals \/ Answered(rs.sent, "configured")

\* one pass of the loop
Serve(kind, req, rand1, rand2, nonce, kms) ==
    \E rs \in {run_server(Globals, Received(kind, req), rand1, rand2, nonce, kms)} :
        /\ app.serving
        /\ Changes(rs) => hist.changes < MaxChanges
        /\ app' = [CREDENTIALS |-> rs.g.CREDENTIALS,
                   ENCRYPTION_KEY |-> rs.g.ENCRYPTION_KEY,
                   ACB |-> rs.g.ACB,
                   serving |-> rs.serving]
        /\ router' = rs.g.router
        /\ oram_pool' = rs.g.oram_pool
        /\ oram' = rs.g.oram
        /\ standard_pool' = rs.g.standard_pool
        /\ obs' = [op |-> "request", data |-> Received(kind, req), sent |-> rs.sent,
                   closed |-> rs.closed]
        /\ UNCHANGED workflow
        /\ hist' =
             [changes |-> IF Changes(rs) THEN hist.changes + 1 ELSE hist.changes,
              configures |-> IF Answered(rs.sent, "configured")
                             THEN hist.configures + 1 ELSE hist.configures,
              stored |-> IF Answered(rs.sent, "stored")
                         THEN DictPut(hist.stored, req.key.v,
                                      str_encode(req.value.v))
                         ELSE hist.stored]

\* the leaves and the nonce a request can draw
AppReaches(req, storing) ==
    /\ app.ACB # None
    /\ dict_get(req, "key").t = "str"
    /\ Truthy(dict_get(req, "key"))
    /\ storing => dict_get(req, "value").t \in {"str", "dict"}
AppLeaf1(req, storing) ==
    IF AppReaches(req, storing) THEN LeafDraws1(req.key.v, storing) ELSE {0}
AppLeaf2(req, storing) ==
    IF AppReaches(req, storing) THEN LeafDraws2(req.key.v, storing) ELSE {0}
AppNonce(req) == {0}
AppKms(req) == IF ReachesKms(req) THEN KmsResults ELSE {None}

ServePing == Serve("json", PingRequest, 0, 0, 0, None)

ServeHealth == Serve("json", HealthRequest, 0, 0, 0, None)

ServeConfigure ==
    \E req \in ConfigureRequests :
        \E kms \in AppKms(req) : Serve("json", req, 0, 0, 0, kms)

ServeStore ==
    \E req \in StoreRequests :
        \E rand1 \in AppLeaf1(req, TRUE), rand2 \in AppLeaf2(req, TRUE),
           nonce \in AppNonce(req) :
            Serve("json", req, rand1, rand2, nonce, None)

ServeRetrieve ==
    \E req \in RetrieveRequests :
        \E rand1 \in AppLeaf1(req, FALSE), rand2 \in AppLeaf2(req, FALSE) :
            Serve("json", req, rand1, rand2, 0, None)

ServeMetrics == Serve("json", MetricsRequest, 0, 0, 0, None)

ServeOther == \E req \in OtherRequests : Serve("json", req, 0, 0, 0, None)

ServeNoRequest ==
    \E kind \in {"empty", "not_utf8", "not_json", "not_object"} :
        Serve(kind, <<>>, 0, 0, 0, None)

NextApp ==
    \/ ServePing
    \/ ServeHealth
    \/ ServeConfigure
    \/ ServeStore
    \/ ServeRetrieve
    \/ ServeMetrics
    \/ ServeOther
    \/ ServeNoRequest

SpecApp == InitApp /\ [][NextApp]_vars

----------------------------------------------------------------------------
(* One run of ORAMSecureWorkflow against the enclave server.  Each         *)
(* activity sends one request over vsock; the connection can fail, and     *)
(* then the enclave sees nothing.  hist is the sequence of requests the    *)
(* run's activities handed to send_to_enclave.                             *)

\* the config argument of run
WorkflowConfigs ==
    {[aws_access_key_id |-> JStr(<<"A">>),
      aws_secret_access_key |-> JStr(<<"S">>),
      aws_session_token |-> JStr(<<"T">>),
      encrypted_tsk |-> JStr(<<"C">>)]}

\* the vsock connection of one activity
Links == {"ok", "vsock_error"}

InitWorkflow ==
    /\ app = App_init
    /\ workflow = Workflow_init
    /\ router = ACBRouter_init
    /\ oram_pool = ORAMPool_init
    /\ oram = ORAMPool_engine(AcbConfig[1], AcbConfig[2])
    /\ standard_pool = StandardPool_init
    /\ obs = [op |-> "init"]
    /\ hist = <<>>

\* send_to_enclave(request): the enclave's globals after it and the dict
\* returned; the server answers every request with one JSON object
received(rs) == [g |-> rs.g, response |-> rs.sent[1]]
send_to_enclave(g, request, link, rand1, rand2, nonce, kms) ==
    IF link = "ok"
    THEN received(run_server(g, Request(request), rand1, rand2, nonce, kms))
    ELSE [g |-> g, response |-> vsock_error]

\* workflow.execute_activity of the activity at workflow.pc and the run up
\* to the next one
ExecuteActivity(request, link, rand1, rand2, nonce, kms) ==
    \E r \in {send_to_enclave(Globals, request, link, rand1, rand2, nonce, kms)} :
        /\ app' = [app EXCEPT !.CREDENTIALS = r.g.CREDENTIALS,
                              !.ENCRYPTION_KEY = r.g.ENCRYPTION_KEY,
                              !.ACB = r.g.ACB]
        /\ router' = r.g.router
        /\ oram_pool' = r.g.oram_pool
        /\ oram' = r.g.oram
        /\ standard_pool' = r.g.standard_pool
        /\ workflow' = ORAMSecureWorkflow_run(workflow, r.response)
        /\ obs' = [op |-> "activity", request |-> request, response |-> r.response]
        /\ hist' = Append(hist, request)

ExecuteConfigure(config, link, kms) ==
    /\ workflow.pc = 1
    /\ ExecuteActivity(WorkflowRequest(workflow.pc, config), link, 0, 0, 0, kms)

ExecuteStore(config, link, rand1, rand2, nonce) ==
    /\ workflow.pc \in {2, 3, 5, 6}
    /\ ExecuteActivity(WorkflowRequest(workflow.pc, config), link, rand1, rand2, nonce, None)

ExecuteRetrieve(config, link, rand1, rand2) ==
    /\ workflow.pc = 4
    /\ ExecuteActivity(WorkflowRequest(workflow.pc, config), link, rand1, rand2, 0, None)

ExecuteMetrics(config, link) ==
    /\ workflow.pc = 7
    /\ ExecuteActivity(WorkflowRequest(workflow.pc, config), link, 0, 0, 0, None)

\* the draws of the request the run sends next
WorkflowLeaf1(config, storing) ==
    IF workflow.pc \in 2..6
    THEN AppLeaf1(WorkflowRequest(workflow.pc, config), storing) ELSE {0}
WorkflowLeaf2(config, storing) ==
    IF workflow.pc \in 2..6
    THEN AppLeaf2(WorkflowRequest(workflow.pc, config), storing) ELSE {0}

NextWorkflow ==
    \/ \E config \in WorkflowConfigs, link \in Links, kms \in KmsResults :
          ExecuteConfigure(config, link, kms)
    \/ \E config \in WorkflowConfigs, link \in Links :
          \E rand1 \in WorkflowLeaf1(config, TRUE), rand2 \in WorkflowLeaf2(config, TRUE),
             nonce \in Nonces :
              ExecuteStore(config, link, rand1, rand2, nonce)
    \/ \E config \in WorkflowConfigs, link \in Links :
          \E rand1 \in WorkflowLeaf1(config, FALSE), rand2 \in WorkflowLeaf2(config, FALSE) :
              ExecuteRetrieve(config, link, rand1, rand2)
    \/ \E config \in WorkflowConfigs, link \in Links :
          ExecuteMetrics(config, link)

SpecWorkflow == InitWorkflow /\ [][NextWorkflow]_vars

----------------------------------------------------------------------------
(* Properties of the engine *)

\* the bucket at depth d (root = 0) of the root-to-leaf path of a leaf, by heap
\* arithmetic: the leaf's ancestor h - d levels up
PathBucket(h, leaf, d) == (Pow2(d) - 1) + (leaf \div Pow2(h - d))
PathTo(h, leaf) == [k \in 1..(h + 1) |-> PathBucket(h, leaf, k - 1)]
OnPathTo(h, leaf, i) == \E d \in 0..h : i = PathBucket(h, leaf, d)

IsAccess(o) == o.op \in {"read", "write"}

\* where the real blocks are
RealInStash(e) == {j \in 1..Len(e.stash) : ~e.stash[j].is_dummy}
RealInTree(e) ==
    {p \in UNION {{<<i, j>> : j \in 1..Len(e.tree[i])} : i \in DOMAIN e.tree} :
        ~e.tree[p[1]][p[2]].is_dummy}
RealIds(e) ==
    {e.stash[j].block_id : j \in RealInStash(e)}
        \cup {e.tree[p[1]][p[2]].block_id : p \in RealInTree(e)}
Copies(e, id) ==
    Cardinality({j \in RealInStash(e) : e.stash[j].block_id = id})
        + Cardinality({p \in RealInTree(e) : e.tree[p[1]][p[2]].block_id = id})

\* C2: after every access, each real block in the tree has a position and sits
\* in a bucket on the root-to-leaf path of its position; all other real blocks
\* are in the stash.
C2_PathInvariant ==
    \A p \in RealInTree(oram) :
        LET b == oram.tree[p[1]][p[2]]
        IN /\ b.block_id \in DOMAIN oram.position_map
           /\ OnPathTo(oram.height, oram.position_map[b.block_id], p[1])

\* C2 witness: after an access one real block sits below the root and another
\* was left in the stash
C2_Witness ==
    /\ IsAccess(obs)
    /\ \E p \in RealInTree(oram) : p[1] > 0
    /\ RealInStash(oram) # {}

\* C3: after every access the real blocks of stash and tree are exactly the
\* written block ids, one copy each.
C3_BlockConservation ==
    \A id \in RealIds(oram) \cup DOMAIN hist :
        Copies(oram, id) = IF id \in DOMAIN hist THEN 1 ELSE 0

\* C3 witness: a block was overwritten, two or more ids are live and the stash is in use
C3_Witness ==
    /\ IsAccess(obs)
    /\ \E id \in DOMAIN hist : hist[id].rewritten
    /\ Cardinality(DOMAIN hist) >= 2
    /\ RealInStash(oram) # {}

\* C4: every bucket of the tree holds exactly Z blocks, from construction on.
C4_ConstantBucketSize ==
    \A i \in DOMAIN oram.tree : Len(oram.tree[i]) = oram.bucket_capacity

\* C5: an access reads the H+1 buckets of the path of the leaf the block had
\* before the remap, root to leaf, writes back those same H+1 buckets, and
\* leaves every other bucket as it was.
C5_TraceShape ==
    [][IsAccess(obs') =>
          LET h == oram.height
              path == PathTo(h, obs'.old_leaf)
          IN /\ (obs'.block_id \in DOMAIN oram.position_map
                    => obs'.old_leaf = oram.position_map[obs'.block_id])
             /\ obs'.old_leaf \in 0..(Pow2(h) - 1)
             /\ obs'.reads = path
             /\ Len(obs'.reads) = h + 1
             /\ Len(obs'.writes) = h + 1
             /\ Range(obs'.writes) = Range(path)
             /\ \A i \in DOMAIN oram.tree :
                    i \notin Range(path) => oram'.tree[i] = oram.tree[i]]_vars

\* C5 witness: an access of a tree of height 2 on a known block whose path held
\* real blocks
C5_Witness ==
    /\ IsAccess(obs)
    /\ oram.height = 2
    /\ oram.access_count >= 2
    /\ Len(obs.reads) = 3
    /\ obs.block_id \in DOMAIN hist
    /\ \E p \in RealInTree(oram) : p[1] \in Range(obs.writes)

\* C6: the bucket indices an access reads and writes are a function of the
\* tree height and the leaf whose path is read alone: PathTo mentions neither
\* the operation, nor the block id, nor the engine's contents, so two accesses
\* that read the path of the same leaf have the same trace.
C6_TraceIndependence ==
    IsAccess(obs) =>
        /\ obs.reads = PathTo(oram.height, obs.old_leaf)
        /\ obs.writes = Reversed(PathTo(oram.height, obs.old_leaf))

\* C6 witness: a read of a block id that was never written, on an engine that
\* already holds blocks
C6_Witness ==
    /\ obs.op = "read"
    /\ obs.block_id \notin DOMAIN hist
    /\ obs.result = None
    /\ RealIds(oram) # {}

----------------------------------------------------------------------------
(* Properties of the ORAM pool *)

\* a byte string cut to its first n bytes
FirstBytes(v, n) == SubSeq(v, 1, IF Len(v) < n THEN Len(v) ELSE n)

\* a byte string without its trailing zero bytes: its longest prefix that is
\* empty or ends in a non-zero byte
WithoutTrailingZeros(v) ==
    LET n == CHOOSE k \in 0..Len(v) :
                 /\ k = 0 \/ v[k] # 0
                 /\ \A m \in (k + 1)..Len(v) : v[m] = 0
    IN SubSeq(v, 1, n)

\* what the ORAM pool gives back for a stored value
ORAMValue(v, block_size) == WithoutTrailingZeros(FirstBytes(v, block_size))

\* C1: retrieve of a key that has been stored returns the value last stored
\* under it, cut to block_size and without trailing zero bytes, with found=true.
C1_LastWriteWins ==
    (obs.op = "pool_retrieve" /\ obs.key \in DOMAIN hist) =>
        /\ obs.data = Some(ORAMValue(hist[obs.key].value, oram.block_size))
        /\ obs.metrics.pool = "oram"
        /\ obs.metrics.found = TRUE

\* C1 witness: a retrieve of a key stored twice, with two values the pool
\* tells apart
C1_Witness ==
    /\ obs.op = "pool_retrieve"
    /\ obs.key \in DOMAIN hist
    /\ hist[obs.key].stores >= 2
    /\ hist[obs.key].prev # None
    /\ ORAMValue(hist[obs.key].prev[1], oram.block_size)
           # ORAMValue(hist[obs.key].value, oram.block_size)

\* C10: retrieve of a key that was never stored returns (None, {pool: "oram",
\* found: false}) and changes neither the engine nor the key table.
C10_MissNoAccess ==
    [][(obs'.op = "pool_retrieve" /\ obs'.key \notin DOMAIN hist) =>
          /\ obs'.data = None
          /\ obs'.metrics = [pool |-> "oram", found |-> FALSE]
          /\ oram' = oram
          /\ oram_pool' = oram_pool]_vars

\* C10 witness: a miss on a pool that holds another key and has made accesses
C10_Witness ==
    /\ obs.op = "pool_retrieve"
    /\ obs.key \notin DOMAIN hist
    /\ hist # <<>>
    /\ oram.access_count >= 2
    /\ obs.key \notin DOMAIN oram_pool.key_to_id

----------------------------------------------------------------------------
(* Properties of the Router *)

\* the lower-cased key starts with one of the six prefixes
MatchesSensitivePrefix(key) ==
    \E p \in { <<"s","e","s","s","i","o","n","_","k","e","y",":">>,
               <<"e","p","h","e","m","e","r","a","l",":">>,
               <<"s","e","c","r","e","t",":">>,
               <<"c","r","e","d","e","n","t","i","a","l",":">>,
               <<"p","r","i","v","a","t","e",":">>,
               <<"t","o","k","e","n",":">> } :
        /\ Len(key) >= Len(p)
        /\ \A i \in 1..Len(p) : LowerChar(key[i]) = p[i]

\* C7: store routes a key to the ORAM pool, with reason sensitive_prefix, iff
\* its lower-cased form starts with a sensitive prefix, and to the Standard
\* pool, with reason non_sensitive, otherwise; two keys of which exactly one
\* matches were never routed to the same pool.
C7_RouterClassification ==
    /\ obs.op = "store" =>
          IF MatchesSensitivePrefix(obs.key)
          THEN /\ obs.result.routed_to = "oram"
               /\ obs.result.reason = "sensitive_prefix"
               /\ obs.result.pool = "oram"
               /\ obs.key \in DOMAIN oram_pool.key_to_id
          ELSE /\ obs.result.routed_to = "standard"
               /\ obs.result.reason = "non_sensitive"
               /\ obs.result.pool = "standard"
               /\ obs.key \in DOMAIN standard_pool.storage
    /\ \A k1 \in DOMAIN hist, k2 \in DOMAIN hist :
          (MatchesSensitivePrefix(k1) /\ ~MatchesSensitivePrefix(k2))
              => hist[k1].routed \cap hist[k2].routed = {}

\* C7 witness: a mixed-case sensitive key and a key that only contains the
\* prefix have both been stored
C7_Witness ==
    /\ obs.op = "store"
    /\ <<"t","o","K","E","N",":","a">> \in DOMAIN hist
    /\ <<" ","t","o","k","e","n",":","a">> \in DOMAIN hist

\* C8 as stated: retrieve of a stored key returns the value last stored
\* under it, from the pool every store of it reported.
C8_RoundTripExact ==
    (obs.op = "retrieve" /\ obs.key \in DOMAIN hist) =>
        /\ obs.data = Some(hist[obs.key].value)
        /\ hist[obs.key].routed = {obs.metrics.routed_from}

\* C8 amended: retrieve of a stored key consults the pool every store of it
\* reported and finds it; from the Standard pool it returns the value last
\* stored, from the ORAM pool that value cut to block_size and without its
\* trailing zero bytes.
C8_RoundTrip ==
    (obs.op = "retrieve" /\ obs.key \in DOMAIN hist) =>
        /\ hist[obs.key].routed = {obs.metrics.routed_from}
        /\ obs.metrics.found = TRUE
        /\ obs.data = Some(IF obs.metrics.routed_from = "oram"
                           THEN ORAMValue(hist[obs.key].value, oram.block_size)
                           ELSE hist[obs.key].value)

\* C8 witness: a retrieve from the ORAM pool of a key stored twice, whose
\* last value comes back shortened
C8_Witness ==
    /\ obs.op = "retrieve"
    /\ obs.key \in DOMAIN hist
    /\ obs.metrics.routed_from = "oram"
    /\ hist[obs.key].stores >= 2
    /\ obs.data # None
    /\ obs.data # Some(hist[obs.key].value)

\* store calls made so far on the keys of a set
RECURSIVE StoreCalls(_)
StoreCalls(keys) ==
    IF keys = {} THEN 0
    ELSE LET k == CHOOSE x \in keys : TRUE
         IN hist[k].stores + StoreCalls(keys \ {k})

\* C9: oram_routes and standard_routes count the store calls made with a
\* sensitive and with a non-sensitive key, get_metrics reports them and their
\* sum, and retrieve and get_metrics leave both counters as they were.
C9_RoutingCounters ==
    /\ [](/\ router.oram_routes =
                StoreCalls({k \in DOMAIN hist : MatchesSensitivePrefix(k)})
          /\ router.standard_routes =
                StoreCalls({k \in DOMAIN hist : ~MatchesSensitivePrefix(k)})
          /\ obs.op = "get_metrics" =>
                /\ obs.metrics.routing.oram_routes = router.oram_routes
                /\ obs.metrics.routing.standard_routes = router.standard_routes
                /\ obs.metrics.routing.total_routes =
                       router.oram_routes + router.standard_routes)
    /\ [][obs'.op \in {"retrieve", "get_metrics"} => router' = router]_vars

\* C9 witness: get_metrics after stores to both pools and a retrieve
C9_Witness ==
    /\ obs.op = "get_metrics"
    /\ router.oram_routes >= 1
    /\ router.standard_routes >= 1
    /\ obs.metrics.routing.total_routes >= 2
    /\ oram.access_count + standard_pool.access_count >= 2

\* C13: in every reachable ORAMPool state the block ids in key_to_id are
\* pairwise distinct and are exactly the integers 0..next_id-1, and once a key
\* has a block id that id never changes and the key is never removed.
C13_KeyTable ==
    /\ [](/\ \A k1, k2 \in DOMAIN oram_pool.key_to_id :
                 k1 # k2 => oram_pool.key_to_id[k1] # oram_pool.key_to_id[k2]
          /\ {oram_pool.key_to_id[k] : k \in DOMAIN oram_pool.key_to_id}
                 = 0 .. (oram_pool.next_id - 1))
    /\ [][\A k \in DOMAIN oram_pool.key_to_id :
              /\ k \in DOMAIN oram_pool'.key_to_id
              /\ oram_pool'.key_to_id[k] = oram_pool.key_to_id[k]]_vars

\* C13 witness: two keys hold ids and one of them was stored again afterwards
C13_Witness ==
    /\ Cardinality(DOMAIN oram_pool.key_to_id) = 2
    /\ oram_pool.next_id = 2
    /\ \E k \in DOMAIN hist : hist[k].stores >= 2
    /\ obs.op = "pool_store"

\* C19: for every capacity N >= 1 the engine has height H = max(1,
\* ceil(log2 N)), 2^H leaves and 2^(H+1) - 1 buckets and reports path_length
\* = H + 1; N = 1 gives H = 1 and path_length 2, and there a read after a
\* write returns the written data; N = 16 gives H = 4.
C19_TreeGeometry ==
    /\ oram.height >= 1
    /\ Pow2(oram.height) >= oram.num_blocks
    /\ oram.height > 1 => Pow2(oram.height - 1) < oram.num_blocks
    /\ oram.num_leaves = Pow2(oram.height)
    /\ oram.num_buckets = 2 * oram.num_leaves - 1
    /\ DOMAIN oram.tree = 0 .. (oram.num_buckets - 1)
    /\ obs.op = "get_metrics" =>
          /\ obs.metrics.tree_height = oram.height
          /\ obs.metrics.num_buckets = oram.num_buckets
          /\ obs.metrics.path_length = oram.height + 1
    /\ oram.num_blocks = 1 => oram.height = 1
    /\ (oram.num_blocks = 1 /\ obs.op = "get_metrics") => obs.metrics.path_length = 2
    /\ oram.num_blocks = 16 => oram.height = 4
    /\ (oram.num_blocks = 1 /\ obs.op = "read" /\ 0 \in DOMAIN hist) =>
          obs.result = Some(FirstBytes(hist[0].data \o <<0, 0>>, 2))

\* C19 witness: on the engine of one block, a read returned the data of the
\* second write
C19_Witness ==
    /\ oram.num_blocks = 1
    /\ oram.height = 1
    /\ obs.op = "read"
    /\ 0 \in DOMAIN hist
    /\ hist[0].rewritten
    /\ obs.result = Some(FirstBytes(hist[0].data \o <<0, 0>>, 2))

\* C16: after any sequence of accesses, also ones that store more distinct
\* blocks than the tree can hold, the stash never holds more than
\* const_stash_limit = 128 blocks (an access that would leave more ends in a
\* fatal error instead).
C16_StashBound == Len(oram.stash) <= 128

\* C18: access_count starts at 0 and every ORAMPool.store and every
\* ORAMPool.retrieve of a known key, each one PathORAM.access call, increases
\* it by exactly 1, a retrieve of an unknown key by 0; the access_count in
\* the metrics of a store is the engine's count after that store.
C18_AccessCount ==
    /\ [](obs.op = "init" => oram.access_count = 0)
    /\ [][/\ obs'.op = "pool_store" =>
               /\ oram'.access_count = oram.access_count + 1
               /\ obs'.metrics.access_count = oram'.access_count
          /\ obs'.op = "pool_retrieve" =>
               IF obs'.key \in DOMAIN oram_pool.key_to_id
               THEN /\ oram'.access_count = oram.access_count + 1
                    /\ obs'.metrics.access_count = oram'.access_count
               ELSE oram'.access_count = oram.access_count]_vars

\* C18 witness: a store whose metrics report the third access, after one
\* other store and a retrieve of a known key
C18_Witness ==
    /\ obs.op = "pool_store"
    /\ obs.metrics.access_count = 3
    /\ oram.access_count = 3
    /\ Cardinality(DOMAIN hist) = 2
    /\ \A k \in DOMAIN hist : hist[k].stores = 1

\* C20: the capacity passed to ORAMPool is the maximum number of entries: the
\* number of keys in key_to_id and of live blocks in the engine is at most
\* capacity.
C20_PoolCapacity ==
    /\ Cardinality(DOMAIN oram_pool.key_to_id) <= oram.num_blocks
    /\ Cardinality(RealIds(oram)) <= oram.num_blocks

----------------------------------------------------------------------------
(* The standard pool: properties *)

\* C11: run side by side with a plain key-to-value map (hist.map) under any
\* sequence of store, retrieve and delete, StandardPool.retrieve(k) returns
\* the map's value for k with found = true when k is in the map, and
\* (None, {pool: 'standard', found: false}) when k is absent or was deleted.
C11_PlainMap ==
    obs.op = "sp_retrieve" =>
        IF obs.key \in DOMAIN hist.map
        THEN /\ obs.data = Some(hist.map[obs.key])
             /\ obs.metrics.pool = "standard"
             /\ obs.metrics.found = TRUE
        ELSE /\ obs.data = None
             /\ obs.metrics = [pool |-> "standard", found |-> FALSE]

\* C11 witness: a retrieve returned the value that replaced an earlier one
\* under its key, after another key was stored and deleted
C11_Witness ==
    /\ obs.op = "sp_retrieve"
    /\ obs.key \in hist.replaced
    /\ obs.data = Some(<<2, 0>>)
    /\ obs.metrics.found = TRUE
    /\ hist.deleted # {}

\* C12: StandardPool.delete(k) returns true iff k was present immediately
\* before the call; when it returns true only the entry for k is removed, and
\* when it returns false the pool state is unchanged.
C12_Delete ==
    [][obs'.op = "sp_delete" =>
        /\ obs'.result = (obs'.key \in DOMAIN standard_pool.storage)
        /\ IF obs'.result
           THEN /\ obs'.key \notin DOMAIN standard_pool'.storage
                /\ \A k \in DOMAIN standard_pool.storage \ {obs'.key} :
                       /\ k \in DOMAIN standard_pool'.storage
                       /\ standard_pool'.storage[k] = standard_pool.storage[k]
                /\ DOMAIN standard_pool'.storage \subseteq DOMAIN standard_pool.storage
                /\ standard_pool'.access_count = standard_pool.access_count
           ELSE standard_pool' = standard_pool]_vars

\* C12 witness: a delete returned true and left another entry in the pool
C12_Witness ==
    /\ obs.op = "sp_delete"
    /\ obs.result = TRUE
    /\ DOMAIN standard_pool.storage # {}

----------------------------------------------------------------------------
(* The enclave server: properties *)

\* the type of the request of a pass of the loop
ReqType(o) == dict_get(o.data.req, "type")
IsRequest(o, type) == o.op = "request" /\ o.data.kind = "json" /\ ReqType(o) = JStr(type)

\* C14: while no configure request has succeeded, every store, retrieve and
\* metrics request is answered with status 'error', msg 'not_configured' and
\* changes no state; ping and health requests are answered normally in any
\* state.
C14_ConfigurationGating ==
    [][/\ ( /\ hist.configures = 0
            /\ \/ IsRequest(obs', Str_store)
               \/ IsRequest(obs', Str_retrieve)
               \/ IsRequest(obs', Str_metrics) )
          => /\ Len(obs'.sent) = 1
             /\ obs'.sent[1].status = "error"
             /\ obs'.sent[1].msg = "not_configured"
             /\ UNCHANGED <<app, router, oram_pool, oram, standard_pool>>
       /\ IsRequest(obs', Str_ping)
          => obs'.sent = <<[status |-> "ok", msg |-> "pong", oram_enabled |-> TRUE]>>
       /\ IsRequest(obs', Str_health)
          => /\ Len(obs'.sent) = 1
             /\ obs'.sent[1].status = "healthy"
             /\ obs'.sent[1].acb_enabled = (app.ACB # None)]_vars

\* C14 witness: a well-formed store request is turned away after a configure
\* request failed
C14_Witness ==
    /\ IsRequest(obs, Str_store)
    /\ Truthy(dict_get(obs.data.req, "key"))
    /\ dict_get(obs.data.req, "value").t = "str"
    /\ Answered(obs.sent, "not_configured")
    /\ hist.configures = 0
    /\ app.CREDENTIALS.ak # JNull

\* C15: once a configure request has succeeded, a later configure request is
\* rejected and does not replace the Router, so every value stored before it
\* is still retrievable after it.
C15_NoReconfiguration ==
    /\ [][(hist.configures >= 1 /\ IsRequest(obs', Str_configure))
            => /\ Len(obs'.sent) = 1
               /\ obs'.sent[1].status = "error"
               /\ app'.ACB = app.ACB
               /\ UNCHANGED <<router, oram_pool, oram, standard_pool>>]_vars
    /\ []( ( /\ IsRequest(obs, Str_retrieve)
             /\ dict_get(obs.data.req, "key").t = "str"
             /\ dict_get(obs.data.req, "key").v \in DOMAIN hist.stored )
           => Answered(obs.sent, "retrieved") )

\* C17: every pass of the loop closes its connection and leaves the server
\* accepting; every non-empty request gets exactly one response; malformed
\* JSON is answered invalid_json, an unknown type unknown_type, an exception
\* in a handler internal_error, and after each of them the next request can
\* be served.
C17_SerialLoop ==
    obs.op = "request" =>
        /\ obs.closed
        /\ app.serving
        /\ obs.data.kind # "empty" => Len(obs.sent) = 1
        /\ obs.data.kind = "not_json" => Answered(obs.sent, "invalid_json")
        /\ ( /\ obs.data.kind = "json"
             /\ ReqType(obs) \notin {JStr(Str_ping), JStr(Str_configure), JStr(Str_store),
                                    JStr(Str_retrieve), JStr(Str_metrics), JStr(Str_health)} )
           => Answered(obs.sent, "unknown_type")
        /\ ( /\ IsRequest(obs, Str_configure)
             /\ \A i \in 1..Len(required_fields) :
                   Truthy(dict_get(obs.data.req, required_fields[i]))
             /\ \/ dict_get(obs.data.req, "aws_access_key_id").t = "num"
                \/ dict_get(obs.data.req, "encrypted_tsk").t = "num" )
           => Answered(obs.sent, "internal_error")
        /\ ( /\ \/ IsRequest(obs, Str_store)
                \/ IsRequest(obs, Str_retrieve)
             /\ hist.configures >= 1
             /\ dict_get(obs.data.req, "key") = JNum(<<"5">>)
             /\ dict_get(obs.data.req, "value").t # "null" \/ IsRequest(obs, Str_retrieve) )
           => Answered(obs.sent, "internal_error")
        /\ ( \/ Answered(obs.sent, "invalid_json")
             \/ Answered(obs.sent, "unknown_type")
             \/ Answered(obs.sent, "internal_error") )
           => ENABLED ServePing

\* C17 witness: a store request whose value is a number raised inside the
\* handler of a configured server and was answered internal_error
C17_Witness ==
    /\ IsRequest(obs, Str_store)
    /\ dict_get(obs.data.req, "value").t = "num"
    /\ dict_get(obs.data.req, "key").t = "str"
    /\ hist.configures >= 1
    /\ obs.sent = <<internal_error>>
    /\ obs.closed
    /\ app.serving

----------------------------------------------------------------------------
(* Properties of the engine: position map, payloads, eviction *)

\* C21: in every reachable engine state every live (written) block id has an
\* entry in position_map (a dict: one entry per id), every position_map value
\* is a leaf number in 0..2^H-1, and no access removes an entry.
C21_PositionMap ==
    /\ [](/\ RealIds(oram) \cup DOMAIN hist \subseteq DOMAIN oram.position_map
          /\ \A id \in DOMAIN oram.position_map :
                 oram.position_map[id] \in 0..(Pow2(oram.height) - 1))
    /\ [][\A id \in DOMAIN oram.position_map : id \in DOMAIN oram'.position_map]_vars

\* C21 witness: a tree of height 2 after an access, with a written id and an
\* id that was only read both in the position map
C21_Witness ==
    /\ IsAccess(obs)
    /\ oram.height = 2
    /\ DOMAIN hist # {}
    /\ DOMAIN oram.position_map \ DOMAIN hist # {}
    /\ \E id \in DOMAIN oram.position_map : oram.position_map[id] = 3

\* the real blocks of stash and tree
RealBlocks(e) ==
    {e.stash[j] : j \in RealInStash(e)} \cup {e.tree[p[1]][p[2]] : p \in RealInTree(e)}

\* C22: in every reachable state every real block has a payload of exactly
\* block_size bytes, and the block of a stored key holds the value last stored
\* cut to its first block_size bytes or right-padded with zero bytes.
C22_FixedPayload ==
    /\ \A b \in RealBlocks(oram) : Len(b.data) = oram.block_size
    /\ \A key \in DOMAIN hist :
          \A b \in RealBlocks(oram) :
              b.block_id = oram_pool.key_to_id[key] =>
                  \A i \in 1..oram.block_size :
                      b.data[i] = IF i <= Len(hist[key].value)
                                  THEN hist[key].value[i] ELSE 0

\* C22 witness: a store of a value longer than block_size while another key
\* holds a value shorter than block_size
C22_Witness ==
    /\ obs.op = "pool_store"
    /\ Len(obs.value) > oram.block_size
    /\ \E key \in DOMAIN hist : Len(hist[key].value) < oram.block_size
    /\ Cardinality(RealBlocks(oram)) = 2

\* the real blocks of bucket i
RealInBucket(e, i) == {j \in 1..Len(e.tree[i]) : ~e.tree[i][j].is_dummy}

\* C23: no bucket ever holds more than Z blocks, and right after an access
\* every bucket of the accessed path holds exactly Z blocks: real ones, then
\* the dummies of the padding.
C23_BucketCapacity ==
    /\ \A i \in DOMAIN oram.tree : Len(oram.tree[i]) <= oram.bucket_capacity
    /\ IsAccess(obs) =>
          \A i \in Range(PathTo(oram.height, obs.old_leaf)) :
              /\ Len(oram.tree[i]) = oram.bucket_capacity
              /\ \A j \in 1..Len(oram.tree[i]) :
                    IF j <= Cardinality(RealInBucket(oram, i))
                    THEN j \in RealInBucket(oram, i)
                    ELSE oram.tree[i][j] = Block_dummy(oram.block_size)

\* C23 witness: after an access to buckets of two blocks, one bucket of the
\* path holds a real block and a dummy and the other two real blocks
C23_Witness ==
    /\ IsAccess(obs)
    /\ oram.bucket_capacity = 2
    /\ \E i \in Range(PathTo(oram.height, obs.old_leaf)) :
          Cardinality(RealInBucket(oram, i)) = 1
    /\ \E i \in Range(PathTo(oram.height, obs.old_leaf)) :
          Cardinality(RealInBucket(oram, i)) = 2

\* C24: the position map gets the new leaf before the write-back: after an
\* access to block b the map holds b's new leaf, and b, if it is in the tree,
\* sits in a bucket that lies on the path just read and on the path of the
\* new leaf; otherwise it is in the stash.
C24_RemapBeforeWriteBack ==
    IsAccess(obs) =>
        /\ oram.position_map[obs.block_id] = obs.new_leaf
        /\ \A p \in RealInTree(oram) :
              oram.tree[p[1]][p[2]].block_id = obs.block_id =>
                  /\ OnPathTo(oram.height, obs.old_leaf, p[1])
                  /\ OnPathTo(oram.height, obs.new_leaf, p[1])

\* C24 witness: in a tree of height 2 the accessed block moved to another
\* leaf and was written back below the root
C24_Witness ==
    /\ IsAccess(obs)
    /\ oram.height = 2
    /\ obs.old_leaf # obs.new_leaf
    /\ \E p \in RealInTree(oram) :
          oram.tree[p[1]][p[2]].block_id = obs.block_id /\ p[1] > 0

\* bucket i holds Z real blocks
FullOfReal(e, i) == Cardinality(RealInBucket(e, i)) = e.bucket_capacity

\* the buckets of the accessed path below depth d that lie on the path
\* assigned to block id
DeeperOnBoth(e, leaf, id, d) ==
    {PathBucket(e.height, leaf, k) : k \in (d + 1)..e.height}
        \cap Range(PathTo(e.height, e.position_map[id]))

\* C25: the write-back is greedy from the leaf up.  After every access, every
\* bucket of the accessed path that lies on the assigned path of a block left
\* in the stash holds Z real blocks; and for every block placed in a bucket
\* of the accessed path, every deeper bucket of the accessed path on the
\* block's assigned path holds Z real blocks: it had no room left when the
\* block was tried for it.
C25_GreedyEviction ==
    IsAccess(obs) =>
        /\ \A j \in RealInStash(oram) :
              \A i \in DeeperOnBoth(oram, obs.old_leaf, oram.stash[j].block_id, -1) :
                  FullOfReal(oram, i)
        /\ \A d \in 0..oram.height :
              \A j \in RealInBucket(oram, PathBucket(oram.height, obs.old_leaf, d)) :
                  \A i \in DeeperOnBoth(oram, obs.old_leaf,
                        oram.tree[PathBucket(oram.height, obs.old_leaf, d)][j].block_id, d) :
                      FullOfReal(oram, i)

\* C25 witness: three blocks assigned to the leaf whose path was accessed, one
\* in the leaf bucket, one in the root and one left in the stash
C25_Witness ==
    /\ IsAccess(obs)
    /\ oram.bucket_capacity = 1
    /\ \E j \in RealInStash(oram) :
          oram.position_map[oram.stash[j].block_id] = obs.old_leaf
    /\ \E j \in RealInBucket(oram, 0) :
          oram.position_map[oram.tree[0][j].block_id] = obs.old_leaf

\* the ids of the real blocks of a sequence of blocks, in order
RealIdSeq(blocks) ==
    LET real == SelectSeq(blocks, LAMBDA b : ~b.is_dummy)
    IN [k \in 1..Len(real) |-> real[k].block_id]

\* the ids of the real blocks on the path of leaf, from depth d down to the leaf
RECURSIVE PathIdSeq(_, _, _)
PathIdSeq(e, leaf, d) ==
    IF d > e.height THEN <<>>
    ELSE RealIdSeq(e.tree[PathBucket(e.height, leaf, d)]) \o PathIdSeq(e, leaf, d + 1)

\* insertion order for an access on engine e: the stash as it was, then the
\* path's blocks root to leaf, then the block a write creates
InsertionOrder(e, o) ==
    LET before == RealIdSeq(e.stash) \o PathIdSeq(e, o.old_leaf, 0)
    IN IF o.op = "write" /\ o.block_id \notin Range(before)
       THEN Append(before, o.block_id)
       ELSE before

\* the ids held by the accessed path's buckets below depth d
PlacedDeeper(e, leaf, d) ==
    UNION {Range(RealIdSeq(e.tree[PathBucket(e.height, leaf, k)])) : k \in (d + 1)..e.height}

\* the first n elements of a sequence
FirstN(seq, n) == SubSeq(seq, 1, IF Len(seq) < n THEN Len(seq) ELSE n)

\* C26: with the ids taken in insertion order (the stash as it was, then the
\* blocks read from the path root to leaf, an overwritten block where it was,
\* a new block last), each bucket of the accessed path, leaf to root, gets the
\* first Z ids that qualify for it among those not placed deeper, in that
\* order, and the stash keeps the ids placed nowhere, in that order.
C26_TieBreak ==
    [][IsAccess(obs') =>
          LET order == InsertionOrder(oram, obs')
              h == oram.height
              leaf == obs'.old_leaf
              placed == PlacedDeeper(oram', leaf, -1)
          IN /\ RealIdSeq(oram'.stash) = SelectSeq(order, LAMBDA id : id \notin placed)
             /\ \A d \in 0..h :
                    LET deeper == PlacedDeeper(oram', leaf, d)
                        bucket_idx == PathBucket(h, leaf, d)
                    IN RealIdSeq(oram'.tree[bucket_idx]) =
                           FirstN(SelectSeq(order, LAMBDA id :
                                      /\ id \notin deeper
                                      /\ OnPathTo(h, oram'.position_map[id], bucket_idx)),
                                  oram.bucket_capacity)]_vars

\* C26 witness: buckets of one block and three ids that all qualified for the
\* root only: the write of id 2 found id 1 in the stash and id 0 in the root,
\* the root got id 1 and the stash keeps ids 0 and 2 in that order
C26_Witness ==
    /\ obs.op = "write"
    /\ obs.block_id = 2
    /\ oram.bucket_capacity = 1
    /\ RealIdSeq(oram.stash) = <<0, 2>>
    /\ RealIdSeq(oram.tree[0]) = <<1>>
    /\ \A id \in {0, 1, 2} : oram.position_map[id] # obs.old_leaf

\* the payloads held under block id `id` (one payload: C3)
PayloadOf(e, id) == {b.data : b \in {x \in RealBlocks(e) : x.block_id = id}}

\* the real blocks other than those of block id `id`
OtherBlocks(blocks, id) == {b \in blocks : b.block_id # id}

\* C27: a read access leaves the real blocks, ids and payloads, as they were,
\* two reads of the same block in a row return the same payload, and a write
\* to block b leaves every other real block with the payload it had and adds
\* or keeps only b.
C27_PayloadFrame ==
    [][IsAccess(obs') =>
          LET before == RealBlocks(oram)
              after == RealBlocks(oram')
          IN /\ obs'.op = "read" => after = before
             /\ obs'.op = "write" =>
                   /\ OtherBlocks(after, obs'.block_id) = OtherBlocks(before, obs'.block_id)
                   /\ \E b \in after : b.block_id = obs'.block_id
             /\ (obs.op = "read" /\ obs'.op = "read" /\ obs'.block_id = obs.block_id) =>
                   obs'.result = obs.result]_vars

\* C27 witness: block 0 was written a second time and holds another payload
\* than block 1, which still holds the payload it was written with
C27_Witness ==
    /\ obs.op = "write"
    /\ obs.block_id = 0
    /\ 0 \in DOMAIN hist /\ hist[0].rewritten
    /\ 1 \in DOMAIN hist /\ ~hist[1].rewritten
    /\ PayloadOf(oram, 0) # PayloadOf(oram, 1)
    /\ PayloadOf(oram, 1) = {PadData(hist[1].data, oram.block_size)}

\* the number of real blocks in stash and tree
NumReal(e) == Cardinality(RealInStash(e)) + Cardinality(RealInTree(e))

\* C28: a read of an id that was never written returns None and creates no
\* block, yet reads the whole path root to leaf, writes it back leaf to root,
\* adds one to access_count and leaves a position_map entry for the id; the
\* number of real blocks grows only over a write of an id that is not live,
\* and then by one.
C28_ReadOfUnwritten ==
    [][IsAccess(obs') =>
          /\ (obs'.op = "read" /\ obs'.block_id \notin DOMAIN hist) =>
                /\ obs'.result = None
                /\ NumReal(oram') = NumReal(oram)
                /\ obs'.reads = get_path_indices(oram.height, obs'.old_leaf)
                /\ obs'.writes = Reversed(get_path_indices(oram.height, obs'.old_leaf))
                /\ oram'.access_count = oram.access_count + 1
                /\ obs'.block_id \in DOMAIN oram'.position_map
                /\ oram'.position_map[obs'.block_id] = obs'.new_leaf
          /\ NumReal(oram') # NumReal(oram) =>
                /\ obs'.op = "write"
                /\ obs'.block_id \notin RealIds(oram)
                /\ RealIds(oram') = RealIds(oram) \cup {obs'.block_id}
                /\ NumReal(oram') = NumReal(oram) + 1]_vars

\* C28 witness: in a tree of height 2 holding a written block, a read of an
\* id that was never written and had no position returned None after reading
\* and writing back three buckets
C28_Witness ==
    /\ obs.op = "read"
    /\ obs.block_id \notin DOMAIN hist
    /\ DOMAIN hist # {}
    /\ oram.height = 2
    /\ obs.result = None
    /\ Len(obs.reads) = 3 /\ Len(obs.writes) = 3
    /\ DOMAIN oram.position_map = DOMAIN hist \cup {obs.block_id}
    /\ NumReal(oram) = Cardinality(DOMAIN hist)

\* C29: stash_peak starts at 0 and each access sets it to the larger of its
\* old value and the stash size at the end of the access, so it is the largest
\* stash size any access ended with; it never decreases and is never below
\* the current stash size.
C29_StashPeak ==
    /\ [](/\ oram.stash_peak >= Len(oram.stash)
          /\ oram.access_count = 0 => oram.stash_peak = 0)
    /\ [][IsAccess(obs') =>
             /\ oram'.stash_peak >= oram.stash_peak
             /\ oram'.stash_peak = IF Len(oram'.stash) > oram.stash_peak
                                   THEN Len(oram'.stash)
                                   ELSE oram.stash_peak]_vars

\* C29 witness: the stash held a block at the end of an earlier access and
\* is empty after the third one
C29_Witness ==
    /\ IsAccess(obs)
    /\ oram.access_count = 3
    /\ oram.stash_peak = 1
    /\ oram.stash = <<>>

\* every block of stash and tree
AllBlocks(e) ==
    Range(e.stash) \cup UNION {Range(e.tree[i]) : i \in DOMAIN e.tree}

\* C30: whatever block id the caller passes to read or write, the stash holds
\* only real blocks, every real block of stash and tree has block_id >= 0,
\* and every block with block_id = -1 is a dummy.
C30_RealVersusDummy ==
    /\ \A j \in 1..Len(oram.stash) : ~oram.stash[j].is_dummy
    /\ \A b \in AllBlocks(oram) :
          /\ ~b.is_dummy => b.block_id >= 0
          /\ b.block_id = -1 => b.is_dummy

----------------------------------------------------------------------------
(* Properties of the Router and of the server: isolation and failures *)

\* C31: after any sequence of Router calls no key matching a sensitive prefix
\* is in the Standard pool's storage and no other key has a block id in the
\* ORAM pool's key table; a store routed to one pool leaves the other pool
\* (for the ORAM pool: key table, next id and engine) as it was.
C31_PoolIsolation ==
    /\ [](/\ \A key \in DOMAIN standard_pool.storage : ~MatchesSensitivePrefix(key)
          /\ \A key \in DOMAIN oram_pool.key_to_id : MatchesSensitivePrefix(key))
    /\ [][obs'.op = "store" =>
             /\ obs'.result.routed_to = "oram" => standard_pool' = standard_pool
             /\ obs'.result.routed_to = "standard" =>
                    /\ oram_pool' = oram_pool
                    /\ oram' = oram]_vars

\* C31 witness: both pools hold a key, the ORAM pool one written in upper
\* case, and the last call stored into the Standard pool
C31_Witness ==
    /\ obs.op = "store"
    /\ obs.result.routed_to = "standard"
    /\ <<"T","O","K","E","N",":","a">> \in DOMAIN oram_pool.key_to_id
    /\ DOMAIN standard_pool.storage # {}
    /\ oram.access_count >= 1

\* the last request was of this type and its one response has this msg
AnsweredTo(o, type, msg) ==
    /\ o.op = "request"
    /\ o.data.kind = "json"
    /\ dict_get(o.data.req, "type") = JStr(type)
    /\ Answered(o.sent, msg)

\* C32: a configure request answered missing_fields or kms_decrypt_failed
\* leaves CREDENTIALS, ENCRYPTION_KEY, ACB and the Router's objects exactly
\* as they were before the request.
C32_FailedConfigure ==
    [][(\/ AnsweredTo(obs', Str_configure, "missing_fields")
        \/ AnsweredTo(obs', Str_configure, "kms_decrypt_failed")) =>
          /\ app'.CREDENTIALS = app.CREDENTIALS
          /\ app'.ENCRYPTION_KEY = app.ENCRYPTION_KEY
          /\ app'.ACB = app.ACB
          /\ UNCHANGED <<router, oram_pool, oram, standard_pool>>]_vars

\* C33: in every state of the server ENCRYPTION_KEY is set exactly when the
\* Router exists, whatever plaintext the KMS tool returned, and a health
\* response carries equal configured and acb_enabled flags.
C33_HealthConsistency ==
    /\ (app.ENCRYPTION_KEY # None) <=> (app.ACB # None)
    /\ (/\ obs.op = "request"
        /\ Len(obs.sent) = 1
        /\ obs.sent[1].status = "healthy") =>
            obs.sent[1].configured = obs.sent[1].acb_enabled

\* C34: a store request answered internal_error leaves the Router as it was:
\* no routing counter grows, no block id is assigned to the key and no
\* pool's access_count changes.
C34_FailedStore ==
    [][AnsweredTo(obs', Str_store, "internal_error") =>
          /\ router' = router
          /\ oram_pool'.key_to_id = oram_pool.key_to_id
          /\ oram_pool'.next_id = oram_pool.next_id
          /\ oram'.access_count = oram.access_count
          /\ standard_pool'.access_count = standard_pool.access_count]_vars

\* C35: every retrieve response with status ok has msg not_found exactly
\* when its found field is false, and msg retrieved, with a value, exactly
\* when found is true.
C35_RetrieveConsistency ==
    (/\ obs.op = "request"
     /\ obs.data.kind = "json"
     /\ dict_get(obs.data.req, "type") = JStr(Str_retrieve)
     /\ Len(obs.sent) = 1
     /\ obs.sent[1].status = "ok") =>
        /\ "found" \in DOMAIN obs.sent[1]
        /\ obs.sent[1].msg = "not_found" <=> ~obs.sent[1].found
        /\ (obs.sent[1].msg = "retrieved" /\ "value" \in DOMAIN obs.sent[1])
               <=> obs.sent[1].found

\* the request has no key: the field is absent, null or the empty string
KeyMissing(req) ==
    "key" \notin DOMAIN req \/ req.key = JNull \/ req.key = JStr(<<>>)

\* the request has no value: the field is absent or null
ValueMissing(req) == "value" \notin DOMAIN req \/ req.value = JNull

\* the request of observation o is a JSON object of this type
RequestOf(o, type) ==
    /\ o.op = "request"
    /\ o.data.kind = "json"
    /\ dict_get(o.data.req, "type") = JStr(type)

\* C36: on a configured enclave a store request without key or without
\* value and a retrieve request without key are answered status error, msg
\* missing_params, and change nothing; a store of the empty string under a
\* key is answered stored and the key's pool holds an entry for it.
C36_MissingParams ==
    [][app.ACB # None =>
          /\ (\/ /\ RequestOf(obs', Str_store)
                 /\ KeyMissing(obs'.data.req) \/ ValueMissing(obs'.data.req)
              \/ /\ RequestOf(obs', Str_retrieve)
                 /\ KeyMissing(obs'.data.req)) =>
                /\ Answered(obs'.sent, "missing_params")
                /\ obs'.sent[1].status = "error"
                /\ UNCHANGED <<app, router, oram_pool, oram, standard_pool>>
          /\ (/\ RequestOf(obs', Str_store)
              /\ ~KeyMissing(obs'.data.req)
              /\ obs'.data.req.key.t = "str"
              /\ dict_get(obs'.data.req, "value") = JStr(<<>>)) =>
                /\ Answered(obs'.sent, "stored")
                /\ obs'.sent[1].status = "ok"
                /\ IF obs'.sent[1].routed_to = "oram"
                   THEN /\ obs'.data.req.key.v \in DOMAIN oram_pool'.key_to_id
                        /\ oram_pool'.key_to_id[obs'.data.req.key.v] \in RealIds(oram')
                   ELSE obs'.data.req.key.v \in DOMAIN standard_pool'.storage]_vars

\* C36 witness: an enclave that stored the empty string under a key answered
\* missing_params to a retrieve request without key
C36_Witness ==
    /\ RequestOf(obs, Str_retrieve)
    /\ "key" \notin DOMAIN obs.data.req
    /\ Answered(obs.sent, "missing_params")
    /\ \E key \in DOMAIN hist.stored : hist.stored[key] = <<>>

\* the type of a request and, where it has one, its key
Sent(request) ==
    IF "key" \in DOMAIN request THEN <<request.type.v, request.key.v>>
    ELSE <<request.type.v>>

\* the requests of a complete run, in the order the claim gives
WorkflowOrder ==
    << <<Str_configure>>,
       <<Str_store, Key_session>>,
       <<Str_store, Key_state>>,
       <<Str_retrieve, Key_session>>,
       <<Str_store, Key_ephemeral>>,
       <<Str_store, Key_metadata>>,
       <<Str_metrics>> >>

\* C37: the run sends the configure request first; if the response's status
\* is not ok it returns {status: error, stage: configure} having sent
\* nothing else; otherwise it issues store(session key), store(workflow
\* state), retrieve(session key), store(ephemeral), store(metadata), metrics
\* in that order, and has returned ok only after all of them.
C37_WorkflowOrder ==
    /\ Len(hist) <= Len(WorkflowOrder)
    /\ \A i \in 1..Len(hist) : Sent(hist[i]) = WorkflowOrder[i]
    /\ workflow.pc = 8 =>
          \/ /\ workflow.result[1].status = "error"
             /\ workflow.result[1].stage = "configure"
             /\ workflow.result[1].details.status # "ok"
             /\ Len(hist) = 1
          \/ /\ workflow.result[1].status = "ok"
             /\ Len(hist) = Len(WorkflowOrder)
    /\ (obs.op = "activity" /\ Len(hist) = 1 /\ obs.response.status # "ok") =>
          /\ workflow.pc = 8
          /\ workflow.result[1].status = "error"
    /\ (obs.op = "activity" /\ Len(hist) = 1 /\ obs.response.status = "ok") =>
          workflow.pc = 2

\* C37 witness: a complete run whose retrieve returned the session value
C37_Witness ==
    /\ workflow.pc = 8
    /\ workflow.result[1].status = "ok"
    /\ workflow.result[1].session_key_value = [as |-> "str", of |-> str_encode(Value_text)]
    /\ Len(hist) = 7
    /\ router.oram_routes = 2 /\ router.standard_routes = 2

----------------------------------------------------------------------------
(* Properties of the paths *)

\* C38: _get_path_indices(leaf), for every leaf of a tree of height H,
\* returns H+1 bucket indices, the first 0, the last 2^H-1+leaf, each the
\* heap parent of the next; _can_place_on_path(b, i) is true exactly when
\* b has a position and i is an ancestor-or-self, in the heap, of the leaf
\* bucket of that position.
C38_PathIndices ==
    /\ obs.op = "get_path_indices" =>
          /\ Len(obs.path) = oram.height + 1
          /\ obs.path[1] = 0
          /\ obs.path[Len(obs.path)] = Pow2(oram.height) - 1 + obs.leaf
          /\ \A k \in 1..(Len(obs.path) - 1) :
                obs.path[k] = (obs.path[k + 1] - 1) \div 2
    /\ obs.op = "can_place_on_path" =>
          (obs.result <=>
              /\ obs.block_id \in DOMAIN oram.position_map
              /\ OnPathTo(oram.height, oram.position_map[obs.block_id], obs.bucket_idx))

\* C38 witness: in a tree of height 4 block 0, assigned to leaf 5, can be
\* placed in the leaf bucket 20
C38_Witness ==
    /\ obs.op = "can_place_on_path"
    /\ oram.height = 4
    /\ obs.block_id = 0
    /\ 0 \in DOMAIN oram.position_map
    /\ oram.position_map[0] = 5
    /\ obs.bucket_idx = 20
    /\ obs.result

=============================================================================
